---- MODULE Spec2Model ----
(***************************************************************************)
(* Vaccination registry (IAED-2025): the in-memory store of vaccine lots,  *)
(* vaccine-name index, user index and inoculation list, and the commands   *)
(* c (register), a (administer), r (retire), d (revoke), t (clock) that    *)
(* read and mutate it, and the listing commands l and u that read it.      *)
(*                                                                         *)
(* Strings are sequences of byte values, so that strcmp and the hash       *)
(* functions are computed as the C code computes them.  Heap objects       *)
(* (VaccineLot, Inoculation) live in heaps indexed by address; the hash    *)
(* chains, the name-index arrays, the user-index arrays and the two global *)
(* linked lists hold addresses, as the C structures hold pointers.         *)
(***************************************************************************)
EXTENDS Integers, Sequences, FiniteSets, TLC

(***************************************************************************)
(* Program constants and model bounds                                      *)
(***************************************************************************)
HASH_SIZE == 1009

\* commandC's parameter maxVaccines.  main passes MAX_VACCINES (1000); the
\* model passes a small cap so that the cap is reached.
maxVaccines == 3

\* Largest dose count offered to Register.
MaxDoses == 2

NULL == 0

\* "A", "383" (same bucket as "A"), "B"; "g" is not an uppercase hex digit.
LotA == <<65>>
Lot383 == <<51, 56, 51>>
LotB == <<66>>
LotC == <<67>>
LotBad == <<103>>
\* "A1F"
LotA1F == <<65, 49, 70>>
\* An id of the greatest length allowed, 20 characters: "0123456789ABCDEF0123".
LotLong == <<48, 49, 50, 51, 52, 53, 54, 55, 56, 57, 65, 66, 67, 68, 69, 70, 48, 49, 50, 51>>
BatchIds == {LotA, Lot383, LotB}
BatchInputs == BatchIds \cup {LotBad}

\* "V", "fc" (same bucket as "V"); "V W" contains a space.
NameV == <<86>>
NameFc == <<102, 99>>
NameBad == <<86, 32, 87>>
\* "VaxX"
NameVaxX == <<86, 97, 120, 88>>
Names == {NameV, NameFc}
NameInputs == Names \cup {NameBad}

\* "a", "fn" (same bucket as "a").
UserA == <<97>>
UserFn == <<102, 110>>
\* "Alice"
UserAlice == <<65, 108, 105, 99, 101>>
Users == {UserA, UserFn}

Date(d, m, y) == [day |-> d, month |-> m, year |-> y]
\* Initial clock date (project.c:112) and the day after it.
StartDate == Date(1, 1, 2025)
NextDate == Date(2, 1, 2025)
\* A date before the initial clock, and a date that is not in the calendar.
EarlyDate == Date(31, 12, 2024)
BadDate == Date(30, 2, 2025)
\* An expiry date months ahead.
JuneDate == Date(1, 6, 2025)
ClockDates == {StartDate, NextDate}
DateInputs == ClockDates \cup {EarlyDate, BadDate}

\* Heap addresses: the home addresses and as many spare ones.
LotAddrs == 1..12
InocAddrs == 1..72

VARIABLES
  currentDate,      \* main's Date currentDate
  lotHeap,          \* allocated VaccineLot objects, by address
  hashTable,        \* bucket -> chain of lot addresses (next_hash), head first
  nameHashTable,    \* bucket -> chain of VaccineNameIndex entries, head first
  vaccineList,      \* global lot list (next_vaccine), head first
  vaccineCount,     \* main's int vaccineCount
  inocHeap,         \* allocated Inoculation objects, by address
  userHashTable,    \* bucket -> chain of UserIndex entries, head first
  inoculationList,  \* global inoculation list (next_global), head (newest) first
  cmd,              \* the opcode of the last command handled
  out               \* the lines the last command printed

vars == <<currentDate, lotHeap, hashTable, nameHashTable, vaccineList,
          vaccineCount, inocHeap, userHashTable, inoculationList, cmd, out>>

store == <<currentDate, lotHeap, hashTable, nameHashTable, vaccineList,
           vaccineCount, inocHeap, userHashTable, inoculationList>>

(***************************************************************************)
(* Strings, hashing, dates                                                 *)
(***************************************************************************)
Min(S) == CHOOSE x \in S : \A y \in S : x <= y

\* strcmp: the difference of the first differing bytes, the terminator being 0.
RECURSIVE strcmp(_, _)
strcmp(a, b) ==
  IF a = <<>> /\ b = <<>> THEN 0
  ELSE IF a = <<>> THEN 0 - Head(b)
  ELSE IF b = <<>> THEN Head(a)
  ELSE IF Head(a) # Head(b) THEN Head(a) - Head(b)
  ELSE strcmp(Tail(a), Tail(b))

\* An unsigned int as the pair <<high 16 bits, low 16 bits>>: the model
\* checker's integers are too narrow for 2^32.
Limb == 65536

\* One step of the loop: hash = ((hash << 5) + hash) + c, wrapping at 2^32.
hashStep(hash, c) ==
  LET lo == hash[2] * 32 + hash[2] + c
      hi == hash[1] * 32 + hash[1] + (lo \div Limb)
  IN <<hi % Limb, lo % Limb>>

RECURSIVE hashFold(_, _)
hashFold(hash, str) ==
  IF str = <<>> THEN hash
  ELSE hashFold(hashStep(hash, Head(str)), Tail(str))

\* hash % size
hashMod(hash, size) == ((hash[1] % size) * (Limb % size) + hash[2]) % size

\* 5381 = 0 * 2^16 + 5381
hashString(str, size) == hashMod(hashFold(<<0, 5381>>, str), size)

\* Mutant: the fold starts from 0.
hashBatch_Seed0(batch, size) == hashMod(hashFold(<<0, 0>>, batch), size)

hashBatch(batch, size) == hashMod(hashFold(<<0, 5381>>, batch), size)

\* int c = *str++ with str a const char *: the value read from a byte of 128
\* or more is the byte where char is unsigned and the byte less 256 where char
\* is signed.  Which of the two a build has is fixed by the platform.
charValue(signedChar, byte) == IF signedChar /\ byte >= 128 THEN byte - 256 ELSE byte

\* The values a build reads from the bytes of a string.
chars(signedChar, bytes) == [i \in 1..Len(bytes) |-> charValue(signedChar, bytes[i])]

isdigit(c) == c >= 48 /\ c <= 57
isspace(c) == c = 32 \/ (c >= 9 /\ c <= 13)

isValidBatch(batch) ==
  /\ Len(batch) <= 20
  /\ \A i \in 1..Len(batch) : isdigit(batch[i]) \/ (batch[i] >= 65 /\ batch[i] <= 70)

isValidName(name) ==
  /\ Len(name) <= 50
  /\ \A i \in 1..Len(name) : ~isspace(name[i])

isMonthValid(month) == month >= 1 /\ month <= 12

getDaysInMonth(month, year) ==
  IF month = 2 /\ (year % 4 = 0 /\ (year % 100 # 0 \/ year % 400 = 0))
  THEN 29
  ELSE <<31, 28, 31, 30, 31, 30, 31, 31, 30, 31, 30, 31>>[month]

isDayValid(day, month, year) == day >= 1 /\ day <= getDaysInMonth(month, year)

isDateNotEarlier(date, current) ==
  ~ \/ date.year < current.year
    \/ (date.year = current.year /\ date.month < current.month)
    \/ (date.year = current.year /\ date.month = current.month
        /\ date.day < current.day)

isValidDate(date, current) ==
  /\ isMonthValid(date.month)
  /\ isDayValid(date.day, date.month, date.year)
  /\ isDateNotEarlier(date, current)

compareDates(a, b) ==
  IF a.year # b.year THEN a.year - b.year
  ELSE IF a.month # b.month THEN a.month - b.month
  ELSE a.day - b.day

\* command_t.c and command_d.c each carry their own copy of this check.
isDateFormatValid(date) ==
  /\ date.month >= 1 /\ date.month <= 12
  /\ date.day >= 1
  /\ date.day <= getDaysInMonth(date.month, date.year)

isDateFuture(date, current) ==
  \/ date.year > current.year
  \/ (date.year = current.year /\ date.month > current.month)
  \/ (date.year = current.year /\ date.month = current.month
      /\ date.day > current.day)

datesEqual(a, b) == a.day = b.day /\ a.month = b.month /\ a.year = b.year

(***************************************************************************)
(* Hash tables: an array of HASH_SIZE chains, all NULL at start.  Only the  *)
(* non-empty buckets are stored.                                           *)
(***************************************************************************)
Bucket(table, index) == IF index \in DOMAIN table THEN table[index] ELSE <<>>

SetBucket(table, index, chain) ==
  LET dom == IF chain = <<>> THEN DOMAIN table \ {index}
             ELSE DOMAIN table \cup {index}
  IN [j \in dom |-> IF j = index THEN chain ELSE table[j]]

\* A search loop that stops at the first match: the least of the matching
\* positions, 0 if there is none.
FirstIndex(matching) == IF matching = {} THEN 0 ELSE Min(matching)

RemoveAt(seq, i) == SubSeq(seq, 1, i - 1) \o SubSeq(seq, i + 1, Len(seq))

\* Swap-with-last removal from an array: slot i takes the last element, the
\* count drops by one.
SwapRemoveAt(seq, i) ==
  LET n == Len(seq)
  IN SubSeq([seq EXCEPT ![i] = seq[n]], 1, n - 1)

(***************************************************************************)
(* Lookups                                                                 *)
(***************************************************************************)
findVaccineByBatch(table, heap, batch, size) ==
  LET chain == Bucket(table, hashString(batch, size))
      LotIs(a) == strcmp(heap[a].lot, batch) = 0
      i == FirstIndex({k \in 1..Len(chain) : LotIs(chain[k])})
  IN IF i = 0 THEN NULL ELSE chain[i]

\* The position of the entry for name in its chain, 0 if there is none.
findVaccineByName(table, name, size) ==
  LET chain == Bucket(table, hashString(name, size))
      NameIs(e) == strcmp(e.name, name) = 0
  IN FirstIndex({k \in 1..Len(chain) : NameIs(chain[k])})

findUserByName(table, user, size) ==
  LET chain == Bucket(table, hashString(user, size))
      UserIs(e) == strcmp(e.userName, user) = 0
  IN FirstIndex({k \in 1..Len(chain) : UserIs(chain[k])})

\* The lots array of the entry for name (empty when there is no entry).
NameLots(table, name) ==
  LET b == hashString(name, HASH_SIZE)
      i == findVaccineByName(table, name, HASH_SIZE)
  IN IF i = 0 THEN <<>> ELSE Bucket(table, b)[i].lots

\* The inoculations array of the entry for user (empty when there is none).
UserInocs(table, user) ==
  LET b == hashString(user, HASH_SIZE)
      i == findUserByName(table, user, HASH_SIZE)
  IN IF i = 0 THEN <<>> ELSE Bucket(table, b)[i].inoculations

(***************************************************************************)
(* Initial state (project.c initializeDataStructures, main)                *)
(***************************************************************************)
Init ==
  /\ currentDate = StartDate
  /\ lotHeap = <<>>
  /\ hashTable = <<>>
  /\ nameHashTable = <<>>
  /\ vaccineList = <<>>
  /\ vaccineCount = 0
  /\ inocHeap = <<>>
  /\ userHashTable = <<>>
  /\ inoculationList = <<>>
  /\ cmd = ""
  /\ out = <<>>

Err(msg) == [err |-> msg]
ErrArg(arg, msg) == [arg |-> arg, err |-> msg]
DateLine(d) == [date |-> d]
LotLine(id) == [lot |-> id]
NumLine(n) == [n |-> n]

(***************************************************************************)
(* t: advance or query the clock (command_t.c)                             *)
(***************************************************************************)
\* Mutant: a date earlier than the clock date is accepted.
commandT_NoOrderCheck(hasArg, newDate) ==
  /\ cmd' = "t"
  /\ UNCHANGED <<lotHeap, hashTable, nameHashTable, vaccineList, vaccineCount,
                 inocHeap, userHashTable, inoculationList>>
  /\ IF ~hasArg
     THEN /\ out' = <<DateLine(currentDate)>>
          /\ UNCHANGED currentDate
     ELSE IF ~isDateFormatValid(newDate)
     THEN /\ out' = <<Err("invalid date")>>
          /\ UNCHANGED currentDate
     ELSE /\ currentDate' = newDate
          /\ out' = <<DateLine(newDate)>>

\* hasArg = FALSE is the command with no argument.
commandT(hasArg, newDate) ==
  /\ cmd' = "t"
  /\ UNCHANGED <<lotHeap, hashTable, nameHashTable, vaccineList, vaccineCount,
                 inocHeap, userHashTable, inoculationList>>
  /\ IF ~hasArg
     THEN /\ out' = <<DateLine(currentDate)>>
          /\ UNCHANGED currentDate
     ELSE IF ~isDateFormatValid(newDate)
     THEN /\ out' = <<Err("invalid date")>>
          /\ UNCHANGED currentDate
     ELSE IF compareDates(currentDate, newDate) > 0
     THEN /\ out' = <<Err("invalid date")>>
          /\ UNCHANGED currentDate
     ELSE /\ currentDate' = newDate
          /\ out' = <<DateLine(newDate)>>

(***************************************************************************)
(* Heap allocation.  malloc may return any free address, and which one it   *)
(* returns is not observable.  The model gives every object its home        *)
(* address, fixed by its contents, when that address is free, and the       *)
(* lowest free address above the home addresses otherwise.                  *)
(***************************************************************************)
\* Position of x in the sequence seq that lists it.
IndexOf(seq, x) == CHOOSE i \in 1..Len(seq) : seq[i] = x

LotOrder == <<Lot383, LotA, LotB, LotC, LotA1F, LotLong>>
UserOrder == <<UserA, UserFn, UserAlice>>
DateOrder == <<StartDate, NextDate>>

LotHome(batch) == IndexOf(LotOrder, batch)

InocHome(user, lot, date) ==
  ((IndexOf(UserOrder, user) - 1) * Len(LotOrder) + (IndexOf(LotOrder, lot) - 1))
    * Len(DateOrder) + IndexOf(DateOrder, date)

NewAddr(heap, home, addrs) ==
  IF home \notin DOMAIN heap THEN home
  ELSE Min({a \in addrs : a \notin DOMAIN heap /\ a > Cardinality(addrs) \div 2})

Alloc(heap, addr, obj) ==
  [a \in DOMAIN heap \cup {addr} |-> IF a = addr THEN obj ELSE heap[a]]

Free(heap, addr) == [a \in DOMAIN heap \ {addr} |-> heap[a]]

(***************************************************************************)
(* c: register a lot (command_c.c, data_structures.c)                      *)
(***************************************************************************)
createVaccineLot(batch, name, validation, doses) ==
  [lot |-> batch, name |-> name, validation |-> validation, doses |-> doses,
   dosesUsed |-> 0, isRemoved |-> 0]

\* Mutant: the new lot replaces the chain of its bucket.
addVaccineLotToHash_Overwrite(table, batch, addr, size) ==
  SetBucket(table, hashString(batch, size), <<addr>>)

addVaccineLotToHash(table, batch, addr, size) ==
  LET index == hashString(batch, size)
  IN SetBucket(table, index, <<addr>> \o Bucket(table, index))

\* The entry's capacity field only drives realloc and is left out.
addVaccineLotToNameIndex(table, name, addr, size) ==
  LET index == hashString(name, size)
      chain == Bucket(table, index)
      i == findVaccineByName(table, name, size)
  IN IF i = 0
     THEN SetBucket(table, index, <<[name |-> name, lots |-> <<addr>>]>> \o chain)
     ELSE SetBucket(table, index, [chain EXCEPT ![i].lots = Append(@, addr)])

\* The message of the first failing check of validateNewVaccine, "" if none.
validateNewVaccine(batch, validation, doses, name, current) ==
  IF ~isValidBatch(batch) THEN "invalid batch"
  ELSE IF ~isValidName(name) THEN "invalid name"
  ELSE IF ~isValidDate(validation, current) THEN "invalid date"
  ELSE IF doses <= 0 THEN "invalid quantity"
  ELSE ""

\* Mutant: the capacity test is off by one.
addNewVaccineCheck_OffByOne(batch, count, cap) ==
  IF count > cap THEN "too many vaccines"
  ELSE IF findVaccineByBatch(hashTable, lotHeap, batch, HASH_SIZE) # NULL
  THEN "duplicate batch number"
  ELSE ""

\* The message of the failing check of addNewVaccineToSystem, "" if none.
addNewVaccineCheck(batch, count, cap) ==
  IF count >= cap THEN "too many vaccines"
  ELSE IF findVaccineByBatch(hashTable, lotHeap, batch, HASH_SIZE) # NULL
  THEN "duplicate batch number"
  ELSE ""

\* Mutant: the counter is advanced before the lot is looked up, so a refused
\* request still counts.
commandC_CountFirst(batch, name, validation, doses) ==
  LET invalid == validateNewVaccine(batch, validation, doses, name, currentDate)
      refused == addNewVaccineCheck(batch, vaccineCount, maxVaccines)
      newLot == NewAddr(lotHeap, LotHome(batch), LotAddrs)
  IN /\ cmd' = "c"
     /\ UNCHANGED <<currentDate, inocHeap, userHashTable, inoculationList>>
     /\ IF invalid # ""
        THEN /\ out' = <<Err(invalid)>>
             /\ UNCHANGED <<lotHeap, hashTable, nameHashTable, vaccineList,
                            vaccineCount>>
        ELSE IF refused = "too many vaccines"
        THEN /\ out' = <<Err(refused)>>
             /\ UNCHANGED <<lotHeap, hashTable, nameHashTable, vaccineList,
                            vaccineCount>>
        ELSE IF refused # ""
        THEN /\ out' = <<Err(refused)>>
             /\ vaccineCount' = vaccineCount + 1
             /\ UNCHANGED <<lotHeap, hashTable, nameHashTable, vaccineList>>
        ELSE /\ lotHeap' = Alloc(lotHeap, newLot,
                                 createVaccineLot(batch, name, validation, doses))
             /\ hashTable' = addVaccineLotToHash(hashTable, batch, newLot, HASH_SIZE)
             /\ nameHashTable' =
                  addVaccineLotToNameIndex(nameHashTable, name, newLot, HASH_SIZE)
             /\ vaccineList' = <<newLot>> \o vaccineList
             /\ vaccineCount' = vaccineCount + 1
             /\ out' = <<LotLine(batch)>>

commandC(batch, name, validation, doses) ==
  LET invalid == validateNewVaccine(batch, validation, doses, name, currentDate)
      refused == addNewVaccineCheck(batch, vaccineCount, maxVaccines)
      newLot == NewAddr(lotHeap, LotHome(batch), LotAddrs)
  IN /\ cmd' = "c"
     /\ UNCHANGED <<currentDate, inocHeap, userHashTable, inoculationList>>
     /\ IF invalid # ""
        THEN /\ out' = <<Err(invalid)>>
             /\ UNCHANGED <<lotHeap, hashTable, nameHashTable, vaccineList,
                            vaccineCount>>
        ELSE IF refused # ""
        THEN /\ out' = <<Err(refused)>>
             /\ UNCHANGED <<lotHeap, hashTable, nameHashTable, vaccineList,
                            vaccineCount>>
        ELSE /\ lotHeap' = Alloc(lotHeap, newLot,
                                 createVaccineLot(batch, name, validation, doses))
             /\ hashTable' = addVaccineLotToHash(hashTable, batch, newLot, HASH_SIZE)
             /\ nameHashTable' =
                  addVaccineLotToNameIndex(nameHashTable, name, newLot, HASH_SIZE)
             /\ vaccineList' = <<newLot>> \o vaccineList
             /\ vaccineCount' = vaccineCount + 1
             /\ out' = <<LotLine(batch)>>

(***************************************************************************)
(* a: administer a dose (command_a.c)                                      *)
(***************************************************************************)
\* Mutant: lots with the same expiry date compare equal (no tie-break by id).
compareVaccines_NoTieBreak(vaccineA, vaccineB) ==
  IF vaccineA.validation.year # vaccineB.validation.year
  THEN vaccineA.validation.year - vaccineB.validation.year
  ELSE IF vaccineA.validation.month # vaccineB.validation.month
  THEN vaccineA.validation.month - vaccineB.validation.month
  ELSE vaccineA.validation.day - vaccineB.validation.day

compareVaccines(vaccineA, vaccineB) ==
  IF vaccineA.validation.year # vaccineB.validation.year
  THEN vaccineA.validation.year - vaccineB.validation.year
  ELSE IF vaccineA.validation.month # vaccineB.validation.month
  THEN vaccineA.validation.month - vaccineB.validation.month
  ELSE IF vaccineA.validation.day # vaccineB.validation.day
  THEN vaccineA.validation.day - vaccineB.validation.day
  ELSE strcmp(vaccineA.lot, vaccineB.lot)

\* Mutant: the record's lot id is compared with the last lot of the array only.
inoculationMatches_LastLot(inoc, current, lots) ==
  /\ inoc.date.day = current.day
  /\ inoc.date.month = current.month
  /\ inoc.date.year = current.year
  /\ lots # <<>>
  /\ strcmp(inoc.lot, lotHeap[lots[Len(lots)]].lot) = 0

\* Mutant: the date of the record is not compared.
inoculationMatches_AnyDate(inoc, current, lots) ==
  \E j \in 1..Len(lots) : strcmp(inoc.lot, lotHeap[lots[j]].lot) = 0

\* Same date as the clock, and the record's lot id is the id of a lot in the
\* name entry's array.
inoculationMatches(inoc, current, lots) ==
  /\ inoc.date.day = current.day
  /\ inoc.date.month = current.month
  /\ inoc.date.year = current.year
  /\ \E j \in 1..Len(lots) : strcmp(inoc.lot, lotHeap[lots[j]].lot) = 0

\* Mutant: the guard is keyed on the lot that would be used now, not on the
\* vaccine name.
isAlreadyVaccinated_ByLot(userName, vaccineName, current) ==
  LET inocs == UserInocs(userHashTable, userName)
      lots == NameLots(nameHashTable, vaccineName)
      Usable(a) == lotHeap[a].isRemoved = 0 /\ lotHeap[a].doses > lotHeap[a].dosesUsed
  IN /\ findUserByName(userHashTable, userName, HASH_SIZE) # 0
     /\ findVaccineByName(nameHashTable, vaccineName, HASH_SIZE) # 0
     /\ \E i \in 1..Len(inocs) :
          inoculationMatches(inocHeap[inocs[i]], current, SelectSeq(lots, Usable))

isAlreadyVaccinated(userName, vaccineName, current) ==
  LET inocs == UserInocs(userHashTable, userName)
      lots == NameLots(nameHashTable, vaccineName)
  IN /\ findUserByName(userHashTable, userName, HASH_SIZE) # 0
     /\ findVaccineByName(nameHashTable, vaccineName, HASH_SIZE) # 0
     /\ \E i \in 1..Len(inocs) : inoculationMatches(inocHeap[inocs[i]], current, lots)

\* Mutant: the check of the remaining doses is forgotten.
isLotValidAndAvailable_NoDoseCheck(lot, current) ==
  /\ lot.isRemoved = 0
  /\ compareDates(lot.validation, current) >= 0

isLotValidAndAvailable(lot, current) ==
  /\ lot.isRemoved = 0
  /\ lot.doses > lot.dosesUsed
  /\ compareDates(lot.validation, current) >= 0

\* The loop of findOldestValidLotFromList from index i on, oldest being the
\* best lot so far (NULL if none).
RECURSIVE oldestFrom(_, _, _, _)
oldestFrom(lots, i, oldest, current) ==
  IF i > Len(lots) THEN oldest
  ELSE LET lot == lots[i]
           better == /\ isLotValidAndAvailable(lotHeap[lot], current)
                     /\ \/ oldest = NULL
                        \/ compareVaccines(lotHeap[lot], lotHeap[oldest]) < 0
       IN oldestFrom(lots, i + 1, IF better THEN lot ELSE oldest, current)

\* Mutant: the first usable lot of the array is taken.
findOldestValidLotFromList_First(lots, current) ==
  LET usable == {k \in 1..Len(lots) : isLotValidAndAvailable(lotHeap[lots[k]], current)}
  IN IF usable = {} THEN NULL ELSE lots[Min(usable)]

findOldestValidLotFromList(lots, current) == oldestFrom(lots, 1, NULL, current)

findOldestValidLot(vaccineName, current) ==
  LET lots == NameLots(nameHashTable, vaccineName)
  IN IF findVaccineByName(nameHashTable, vaccineName, HASH_SIZE) = 0 \/ Len(lots) = 0
     THEN NULL
     ELSE findOldestValidLotFromList(lots, current)

createInoculation(user, lot, date) == [user |-> user, lot |-> lot, date |-> date]

\* Mutant: the new record goes to the front of the user's array.
addInoculationToUserIndex_Prepend(table, user, addr, size) ==
  LET index == hashString(user, size)
      chain == Bucket(table, index)
      i == findUserByName(table, user, size)
  IN IF i = 0
     THEN SetBucket(table, index,
                    <<[userName |-> user, inoculations |-> <<addr>>]>> \o chain)
     ELSE SetBucket(table, index, [chain EXCEPT ![i].inoculations = <<addr>> \o @])

\* The entry's capacity field only drives realloc and is left out.
addInoculationToUserIndex(table, user, addr, size) ==
  LET index == hashString(user, size)
      chain == Bucket(table, index)
      i == findUserByName(table, user, size)
  IN IF i = 0
     THEN SetBucket(table, index,
                    <<[userName |-> user, inoculations |-> <<addr>>]>> \o chain)
     ELSE SetBucket(table, index, [chain EXCEPT ![i].inoculations = Append(@, addr)])

\* Mutant: the dose is not counted.
applyVaccine_NoCount(userName, lot) ==
  LET newInoc == NewAddr(inocHeap, InocHome(userName, lotHeap[lot].lot, currentDate),
                        InocAddrs)
  IN /\ inocHeap' = Alloc(inocHeap, newInoc,
                          createInoculation(userName, lotHeap[lot].lot, currentDate))
     /\ userHashTable' =
          addInoculationToUserIndex(userHashTable, userName, newInoc, HASH_SIZE)
     /\ inoculationList' = <<newInoc>> \o inoculationList
     /\ UNCHANGED lotHeap
     /\ out' = <<LotLine(lotHeap[lot].lot)>>

\* Mutant: the new record is linked at the tail of the global list.
applyVaccine_Append(userName, lot) ==
  LET newInoc == NewAddr(inocHeap, InocHome(userName, lotHeap[lot].lot, currentDate),
                        InocAddrs)
  IN /\ inocHeap' = Alloc(inocHeap, newInoc,
                          createInoculation(userName, lotHeap[lot].lot, currentDate))
     /\ userHashTable' =
          addInoculationToUserIndex(userHashTable, userName, newInoc, HASH_SIZE)
     /\ inoculationList' = Append(inoculationList, newInoc)
     /\ lotHeap' = [lotHeap EXCEPT ![lot].dosesUsed = @ + 1]
     /\ out' = <<LotLine(lotHeap[lot].lot)>>

\* Mutant: the dose is taken off the lot's doses instead of being counted as
\* used.
applyVaccine_TakeFromTotal(userName, lot) ==
  LET newInoc == NewAddr(inocHeap, InocHome(userName, lotHeap[lot].lot, currentDate),
                        InocAddrs)
  IN /\ inocHeap' = Alloc(inocHeap, newInoc,
                          createInoculation(userName, lotHeap[lot].lot, currentDate))
     /\ userHashTable' =
          addInoculationToUserIndex(userHashTable, userName, newInoc, HASH_SIZE)
     /\ inoculationList' = <<newInoc>> \o inoculationList
     /\ lotHeap' = [lotHeap EXCEPT ![lot].doses = @ - 1]
     /\ out' = <<LotLine(lotHeap[lot].lot)>>

applyVaccine(userName, lot) ==
  LET newInoc == NewAddr(inocHeap, InocHome(userName, lotHeap[lot].lot, currentDate),
                        InocAddrs)
  IN /\ inocHeap' = Alloc(inocHeap, newInoc,
                          createInoculation(userName, lotHeap[lot].lot, currentDate))
     /\ userHashTable' =
          addInoculationToUserIndex(userHashTable, userName, newInoc, HASH_SIZE)
     /\ inoculationList' = <<newInoc>> \o inoculationList
     /\ lotHeap' = [lotHeap EXCEPT ![lot].dosesUsed = @ + 1]
     /\ out' = <<LotLine(lotHeap[lot].lot)>>

\* Mutant: the stock is looked up before the same-day check.
commandA_StockFirst(userName, vaccineName) ==
  LET lot == findOldestValidLot(vaccineName, currentDate)
  IN /\ cmd' = "a"
     /\ UNCHANGED <<currentDate, hashTable, nameHashTable, vaccineList, vaccineCount>>
     /\ IF lot = NULL
        THEN /\ out' = <<Err("no stock")>>
             /\ UNCHANGED <<lotHeap, inocHeap, userHashTable, inoculationList>>
        ELSE IF isAlreadyVaccinated(userName, vaccineName, currentDate)
        THEN /\ out' = <<Err("already vaccinated")>>
             /\ UNCHANGED <<lotHeap, inocHeap, userHashTable, inoculationList>>
        ELSE applyVaccine(userName, lot)

commandA(userName, vaccineName) ==
  LET lot == findOldestValidLot(vaccineName, currentDate)
  IN /\ cmd' = "a"
     /\ UNCHANGED <<currentDate, hashTable, nameHashTable, vaccineList, vaccineCount>>
     /\ IF isAlreadyVaccinated(userName, vaccineName, currentDate)
        THEN /\ out' = <<Err("already vaccinated")>>
             /\ UNCHANGED <<lotHeap, inocHeap, userHashTable, inoculationList>>
        ELSE IF lot = NULL
        THEN /\ out' = <<Err("no stock")>>
             /\ UNCHANGED <<lotHeap, inocHeap, userHashTable, inoculationList>>
        ELSE applyVaccine(userName, lot)

(***************************************************************************)
(* r: retire a lot (command_r.c)                                           *)
(***************************************************************************)
\* Mutant: the lot stays in the array of its name entry.
removeVaccineFromNameIndex_Skip(table, batch, vaccineName, size) == table

removeVaccineFromNameIndex(table, batch, vaccineName, size) ==
  LET index == hashString(vaccineName, size)
      chain == Bucket(table, index)
      e == findVaccineByName(table, vaccineName, size)
      LotIs(a) == strcmp(lotHeap[a].lot, batch) = 0
      i == IF e = 0 THEN 0 ELSE FirstIndex({k \in 1..Len(chain[e].lots) : LotIs(chain[e].lots[k])})
  IN IF i = 0 THEN table
     ELSE SetBucket(table, index, [chain EXCEPT ![e].lots = SwapRemoveAt(@, i)])

\* Mutant: the head of the list is unlinked, whichever lot it is.
removeVaccineFromList_Head(list, batch) ==
  IF list = <<>> THEN list ELSE Tail(list)

removeVaccineFromList(list, batch) ==
  LET LotIs(a) == strcmp(lotHeap[a].lot, batch) = 0
      i == FirstIndex({k \in 1..Len(list) : LotIs(list[k])})
  IN IF i = 0 THEN list ELSE RemoveAt(list, i)

\* The position in its hashBatch chain of the lot removeVaccineFromHash
\* unlinks and frees, 0 if it finds none.
hashVictim(table, batch, size) ==
  LET chain == Bucket(table, hashBatch(batch, size))
      LotIs(a) == strcmp(lotHeap[a].lot, batch) = 0
  IN FirstIndex({k \in 1..Len(chain) : LotIs(chain[k])})

removeVaccineFromHash(table, batch, size) ==
  LET index == hashBatch(batch, size)
      i == hashVictim(table, batch, size)
  IN IF i = 0 THEN table
     ELSE SetBucket(table, index, RemoveAt(Bucket(table, index), i))

handleUnusedVaccineLot(batch) ==
  LET lot == findVaccineByBatch(hashTable, lotHeap, batch, HASH_SIZE)
      v == hashVictim(hashTable, batch, HASH_SIZE)
  IN IF lot = NULL
     THEN UNCHANGED <<lotHeap, hashTable, nameHashTable, vaccineList>>
     ELSE /\ nameHashTable' =
               removeVaccineFromNameIndex(nameHashTable, batch, lotHeap[lot].name,
                                          HASH_SIZE)
          /\ vaccineList' = removeVaccineFromList(vaccineList, batch)
          /\ hashTable' = removeVaccineFromHash(hashTable, batch, HASH_SIZE)
          /\ lotHeap' = IF v = 0 THEN lotHeap
                        ELSE Free(lotHeap,
                                  Bucket(hashTable, hashBatch(batch, HASH_SIZE))[v])

\* Mutant: the lot is flagged but keeps its doses.
handleUsedVaccineLot_FlagOnly(lot) ==
  /\ lotHeap' = [lotHeap EXCEPT ![lot].isRemoved = 1]
  /\ UNCHANGED <<hashTable, nameHashTable, vaccineList>>

handleUsedVaccineLot(lot) ==
  /\ lotHeap' = [lotHeap EXCEPT ![lot].isRemoved = 1,
                                ![lot].doses = lotHeap[lot].dosesUsed]
  /\ UNCHANGED <<hashTable, nameHashTable, vaccineList>>

\* Mutant: the number printed is read after the lot has been handled.
commandR_PrintAfter(batch) ==
  LET lot == findVaccineByBatch(hashTable, lotHeap, batch, HASH_SIZE)
  IN /\ cmd' = "r"
     /\ UNCHANGED <<currentDate, vaccineCount, inocHeap, userHashTable,
                    inoculationList>>
     /\ IF batch = <<>>
        THEN /\ out' = <<Err("missing batch")>>
             /\ UNCHANGED <<lotHeap, hashTable, nameHashTable, vaccineList>>
        ELSE IF lot = NULL
        THEN /\ out' = <<ErrArg(batch, "no such batch")>>
             /\ UNCHANGED <<lotHeap, hashTable, nameHashTable, vaccineList>>
        ELSE IF lotHeap[lot].dosesUsed = 0
        THEN /\ out' = <<NumLine(0)>>
             /\ handleUnusedVaccineLot(batch)
        ELSE /\ out' = <<NumLine(lotHeap[lot].doses - lotHeap[lot].dosesUsed)>>
             /\ handleUsedVaccineLot(lot)

\* Mutant: a lot is purged whether or not doses of it were used.
commandR_AlwaysPurge(batch) ==
  LET lot == findVaccineByBatch(hashTable, lotHeap, batch, HASH_SIZE)
  IN /\ cmd' = "r"
     /\ UNCHANGED <<currentDate, vaccineCount, inocHeap, userHashTable,
                    inoculationList>>
     /\ IF batch = <<>>
        THEN /\ out' = <<Err("missing batch")>>
             /\ UNCHANGED <<lotHeap, hashTable, nameHashTable, vaccineList>>
        ELSE IF lot = NULL
        THEN /\ out' = <<ErrArg(batch, "no such batch")>>
             /\ UNCHANGED <<lotHeap, hashTable, nameHashTable, vaccineList>>
        ELSE /\ out' = <<NumLine(lotHeap[lot].dosesUsed)>>
             /\ handleUnusedVaccineLot(batch)

\* Mutant: r on a lot that is already frozen purges it.
commandR_PurgeFrozen(batch) ==
  LET lot == findVaccineByBatch(hashTable, lotHeap, batch, HASH_SIZE)
  IN /\ cmd' = "r"
     /\ UNCHANGED <<currentDate, vaccineCount, inocHeap, userHashTable,
                    inoculationList>>
     /\ IF batch = <<>>
        THEN /\ out' = <<Err("missing batch")>>
             /\ UNCHANGED <<lotHeap, hashTable, nameHashTable, vaccineList>>
        ELSE IF lot = NULL
        THEN /\ out' = <<ErrArg(batch, "no such batch")>>
             /\ UNCHANGED <<lotHeap, hashTable, nameHashTable, vaccineList>>
        ELSE /\ out' = <<NumLine(lotHeap[lot].dosesUsed)>>
             /\ IF lotHeap[lot].dosesUsed = 0 \/ lotHeap[lot].isRemoved = 1
                THEN handleUnusedVaccineLot(batch)
                ELSE handleUsedVaccineLot(lot)

\* batch = <<>> is the command with no argument.
commandR(batch) ==
  LET lot == findVaccineByBatch(hashTable, lotHeap, batch, HASH_SIZE)
  IN /\ cmd' = "r"
     /\ UNCHANGED <<currentDate, vaccineCount, inocHeap, userHashTable,
                    inoculationList>>
     /\ IF batch = <<>>
        THEN /\ out' = <<Err("missing batch")>>
             /\ UNCHANGED <<lotHeap, hashTable, nameHashTable, vaccineList>>
        ELSE IF lot = NULL
        THEN /\ out' = <<ErrArg(batch, "no such batch")>>
             /\ UNCHANGED <<lotHeap, hashTable, nameHashTable, vaccineList>>
        ELSE /\ out' = <<NumLine(lotHeap[lot].dosesUsed)>>
             /\ IF lotHeap[lot].dosesUsed = 0
                THEN handleUnusedVaccineLot(batch)
                ELSE handleUsedVaccineLot(lot)

(***************************************************************************)
(* d: revoke inoculations (command_d.c)                                    *)
(***************************************************************************)
\* DeleteArgs: date and lotId are optional (NULL pointers when absent); a
\* lot id is only ever parsed after a date.
DeleteArgs(userName, hasDate, date, hasLot, lotId) ==
  [userName |-> userName, hasDate |-> hasDate, date |-> date,
   hasLot |-> hasLot, lotId |-> lotId]

\* Mutant: the lot filter is not compared.
inoculationMatchesCriteria_NoLot(inoc, args) ==
  IF strcmp(inoc.user, args.userName) # 0 THEN FALSE
  ELSE IF ~args.hasDate THEN TRUE
  ELSE datesEqual(inoc.date, args.date)

\* Mutant: the user name is not compared.
inoculationMatchesCriteria_AnyUser(inoc, args) ==
  IF ~args.hasDate THEN TRUE
  ELSE IF ~datesEqual(inoc.date, args.date) THEN FALSE
  ELSE ~args.hasLot \/ strcmp(inoc.lot, args.lotId) = 0

inoculationMatchesCriteria(inoc, args) ==
  IF strcmp(inoc.user, args.userName) # 0 THEN FALSE
  ELSE IF ~args.hasDate THEN TRUE
  ELSE IF ~datesEqual(inoc.date, args.date) THEN FALSE
  ELSE ~args.hasLot \/ strcmp(inoc.lot, args.lotId) = 0

\* Mutant: the pointer stays in the user's array.
removeInoculationFromUser_Keep(inocs, toRemove) == inocs

\* The user's array after removing the pointer toRemove.
removeInoculationFromUser(inocs, toRemove) ==
  LET i == FirstIndex({k \in 1..Len(inocs) : inocs[k] = toRemove})
  IN IF i = 0 THEN inocs ELSE SwapRemoveAt(inocs, i)

\* The while loop of removeMatchingInoculations: rest is the part of the
\* global list still to visit, kept the visited records that stay linked,
\* inocs the user's array, freed the records freed so far.
RECURSIVE removeLoop(_, _, _, _, _, _)
removeLoop(rest, kept, inocs, freed, count, args) ==
  IF rest = <<>>
  THEN [list |-> kept, inocs |-> inocs, freed |-> freed, count |-> count]
  ELSE LET curr == Head(rest)
       IN IF inoculationMatchesCriteria(inocHeap[curr], args)
          THEN removeLoop(Tail(rest), kept, removeInoculationFromUser(inocs, curr),
                          freed \cup {curr}, count + 1, args)
          ELSE removeLoop(Tail(rest), Append(kept, curr), inocs, freed, count, args)

removeMatchingInoculations(args) ==
  LET index == hashString(args.userName, HASH_SIZE)
      chain == Bucket(userHashTable, index)
      e == findUserByName(userHashTable, args.userName, HASH_SIZE)
      r == removeLoop(inoculationList, <<>>, chain[e].inoculations, {}, 0, args)
  IN IF e = 0
     THEN /\ out' = <<NumLine(0)>>
          /\ UNCHANGED <<inocHeap, userHashTable, inoculationList>>
     ELSE /\ inoculationList' = r.list
          /\ userHashTable' =
               SetBucket(userHashTable, index,
                         [chain EXCEPT ![e].inoculations = r.inocs])
          /\ inocHeap' = [a \in DOMAIN inocHeap \ r.freed |-> inocHeap[a]]
          /\ out' = <<NumLine(r.count)>>

\* parseDateString, for a token that sscanf reads as three integers.
parseDateString(date, current) == isDateFormatValid(date) /\ ~isDateFuture(date, current)

validateUser(userName) ==
  /\ findUserByName(userHashTable, userName, HASH_SIZE) # 0
  /\ Len(UserInocs(userHashTable, userName)) # 0

validateLot(args) ==
  ~ (args.hasLot /\ findVaccineByBatch(hashTable, lotHeap, args.lotId, HASH_SIZE) = NULL)

\* Mutant: the records of the user and date are removed before the lot is
\* looked up.
commandD_LotAfter(args) ==
  LET index == hashString(args.userName, HASH_SIZE)
      chain == Bucket(userHashTable, index)
      e == findUserByName(userHashTable, args.userName, HASH_SIZE)
      r == removeLoop(inoculationList, <<>>, chain[e].inoculations, {}, 0,
                      [args EXCEPT !.hasLot = FALSE])
  IN /\ cmd' = "d"
     /\ UNCHANGED <<currentDate, lotHeap, hashTable, nameHashTable, vaccineList,
                    vaccineCount>>
     /\ IF args.hasDate /\ ~parseDateString(args.date, currentDate)
        THEN /\ out' = <<Err("invalid date")>>
             /\ UNCHANGED <<inocHeap, userHashTable, inoculationList>>
        ELSE IF ~validateUser(args.userName)
        THEN /\ out' = <<ErrArg(args.userName, "no such user")>>
             /\ UNCHANGED <<inocHeap, userHashTable, inoculationList>>
        ELSE IF ~validateLot(args)
        THEN /\ out' = <<ErrArg(args.lotId, "no such batch")>>
             /\ inoculationList' = r.list
             /\ userHashTable' =
                  SetBucket(userHashTable, index,
                            [chain EXCEPT ![e].inoculations = r.inocs])
             /\ inocHeap' = [a \in DOMAIN inocHeap \ r.freed |-> inocHeap[a]]
        ELSE removeMatchingInoculations(args)

\* Mutant: the doses of the removed records are given back to their lots.
commandD_ReturnDose(args) ==
  /\ cmd' = "d"
  /\ UNCHANGED <<currentDate, hashTable, nameHashTable, vaccineList, vaccineCount>>
  /\ IF args.hasDate /\ ~parseDateString(args.date, currentDate)
     THEN /\ out' = <<Err("invalid date")>>
          /\ UNCHANGED <<lotHeap, inocHeap, userHashTable, inoculationList>>
     ELSE IF ~validateUser(args.userName)
     THEN /\ out' = <<ErrArg(args.userName, "no such user")>>
          /\ UNCHANGED <<lotHeap, inocHeap, userHashTable, inoculationList>>
     ELSE IF ~validateLot(args)
     THEN /\ out' = <<ErrArg(args.lotId, "no such batch")>>
          /\ UNCHANGED <<lotHeap, inocHeap, userHashTable, inoculationList>>
     ELSE /\ removeMatchingInoculations(args)
          /\ lotHeap' =
               [a \in DOMAIN lotHeap |->
                  [lotHeap[a] EXCEPT !.dosesUsed =
                     @ - Cardinality({r \in DOMAIN inocHeap \ DOMAIN inocHeap' :
                                        inocHeap[r].lot = lotHeap[a].lot})]]

commandD(args) ==
  /\ cmd' = "d"
  /\ UNCHANGED <<currentDate, lotHeap, hashTable, nameHashTable, vaccineList,
                 vaccineCount>>
  /\ IF args.hasDate /\ ~parseDateString(args.date, currentDate)
     THEN /\ out' = <<Err("invalid date")>>
          /\ UNCHANGED <<inocHeap, userHashTable, inoculationList>>
     ELSE IF ~validateUser(args.userName)
     THEN /\ out' = <<ErrArg(args.userName, "no such user")>>
          /\ UNCHANGED <<inocHeap, userHashTable, inoculationList>>
     ELSE IF ~validateLot(args)
     THEN /\ out' = <<ErrArg(args.lotId, "no such batch")>>
          /\ UNCHANGED <<inocHeap, userHashTable, inoculationList>>
     ELSE removeMatchingInoculations(args)

(***************************************************************************)
(* l: list vaccine lots (command_l.c)                                      *)
(***************************************************************************)
\* printVaccine: name, lot, validation, doses - dosesUsed, dosesUsed.
printVaccine(vaccine) ==
  [name |-> vaccine.name, lot |-> vaccine.lot, validation |-> vaccine.validation,
   available |-> vaccine.doses - vaccine.dosesUsed, used |-> vaccine.dosesUsed]

\* Arrays are sequences; a and b are the C (0-based) indices.
swapVaccines(array, a, b) ==
  [array EXCEPT ![a + 1] = array[b + 1], ![b + 1] = array[a + 1]]

\* The for loop of partition: j runs from low to high - 1, i is the index of
\* the last element not greater than the pivot.
RECURSIVE partitionLoop(_, _, _, _, _)
partitionLoop(array, j, i, high, pivot) ==
  IF j > high - 1 THEN [array |-> array, i |-> i]
  ELSE IF compareVaccines(lotHeap[array[j + 1]], lotHeap[pivot]) <= 0
  THEN partitionLoop(swapVaccines(array, i + 1, j), j + 1, i + 1, high, pivot)
  ELSE partitionLoop(array, j + 1, i, high, pivot)

\* Mutant: the pivot is not moved to its place.
partition_NoPivotSwap(array, low, high) ==
  LET r == partitionLoop(array, low, low - 1, high, array[high + 1])
  IN [array |-> r.array, pi |-> r.i + 1]

\* The array after partitioning and the final index of the pivot.
partition(array, low, high) ==
  LET r == partitionLoop(array, low, low - 1, high, array[high + 1])
  IN [array |-> swapVaccines(r.array, r.i + 1, high), pi |-> r.i + 1]

\* The while loop of insertionSort: shifts the elements greater than key one
\* place up and puts key in the gap.
RECURSIVE shiftLoop(_, _, _, _)
shiftLoop(array, j, low, key) ==
  IF j >= low /\ compareVaccines(lotHeap[array[j + 1]], lotHeap[key]) > 0
  THEN shiftLoop([array EXCEPT ![j + 2] = array[j + 1]], j - 1, low, key)
  ELSE [array EXCEPT ![j + 2] = key]

RECURSIVE insertLoop(_, _, _, _)
insertLoop(array, i, low, high) ==
  IF i > high THEN array
  ELSE insertLoop(shiftLoop(array, i - 1, low, array[i + 1]), i + 1, low, high)

insertionSort(array, low, high) == insertLoop(array, low + 1, low, high)

RECURSIVE quickSort(_, _, _)
quickSort(array, low, high) ==
  IF ~(low < high) THEN array
  ELSE IF high - low < 10 THEN insertionSort(array, low, high)
  ELSE LET p == partition(array, low, high)
       IN quickSort(quickSort(p.array, low, p.pi - 1), p.pi + 1, high)

\* The lines printed for an array of lot pointers.
printAllVaccines(vaccineArray) ==
  [i \in 1..Len(vaccineArray) |-> printVaccine(lotHeap[vaccineArray[i]])]

\* The array is filled from the linked list, head first.
listAllVaccines(list) ==
  IF Len(list) = 0 THEN <<>>
  ELSE printAllVaccines(quickSort(list, 0, Len(list) - 1))

\* Mutant: only a name with no entry is reported as unknown.
listVaccinesByName_EntryOnly(table, vaccineName, size) ==
  IF findVaccineByName(table, vaccineName, size) = 0
  THEN <<ErrArg(vaccineName, "no such vaccine")>>
  ELSE printAllVaccines(NameLots(table, vaccineName))

\* Mutant: the sorted copy is what is printed.
listVaccinesByName_Sorted(table, vaccineName, size) ==
  LET lots == NameLots(table, vaccineName)
      validLots == quickSort(lots, 0, Len(lots) - 1)
  IN IF findVaccineByName(table, vaccineName, size) = 0 \/ Len(lots) = 0
     THEN <<ErrArg(vaccineName, "no such vaccine")>>
     ELSE printAllVaccines(validLots)

\* The sorted copy validLots is built and freed; the entry's own array is
\* what is printed.
listVaccinesByName(table, vaccineName, size) ==
  LET lots == NameLots(table, vaccineName)
      validLots == quickSort(lots, 0, Len(lots) - 1)
  IN IF findVaccineByName(table, vaccineName, size) = 0 \/ Len(lots) = 0
     THEN <<ErrArg(vaccineName, "no such vaccine")>>
     ELSE printAllVaccines(lots)

\* args is the sequence of tokens strtok finds.
RECURSIVE processSpecificVaccines(_, _, _)
processSpecificVaccines(args, table, size) ==
  IF args = <<>> THEN <<>>
  ELSE listVaccinesByName(table, Head(args), size)
         \o processSpecificVaccines(Tail(args), table, size)

\* Mutant: the list itself is sorted, not a copy.
commandL_SortInPlace(args) ==
  /\ cmd' = "l"
  /\ out' = IF args = <<>> THEN listAllVaccines(vaccineList)
            ELSE processSpecificVaccines(args, nameHashTable, HASH_SIZE)
  /\ vaccineList' = quickSort(vaccineList, 0, Len(vaccineList) - 1)
  /\ UNCHANGED <<currentDate, lotHeap, hashTable, nameHashTable, vaccineCount,
                 inocHeap, userHashTable, inoculationList>>

\* args = <<>> is the command with no argument.
commandL(args) ==
  /\ cmd' = "l"
  /\ out' = IF args = <<>> THEN listAllVaccines(vaccineList)
            ELSE processSpecificVaccines(args, nameHashTable, HASH_SIZE)
  /\ UNCHANGED store

(***************************************************************************)
(* u: list inoculations (command_u.c)                                      *)
(***************************************************************************)
printInoculation(inoc) == [user |-> inoc.user, lot |-> inoc.lot, date |-> inoc.date]

\* The array is filled from the back, so the oldest record comes first.
listAllInoculations(list) ==
  [i \in 1..Len(list) |-> printInoculation(inocHeap[list[Len(list) + 1 - i]])]

\* Mutant: only a user with no entry is reported as unknown.
listInoculationsByUser_EntryOnly(userName, table, size) ==
  LET inocs == UserInocs(table, userName)
  IN IF findUserByName(table, userName, size) = 0
     THEN <<ErrArg(userName, "no such user")>>
     ELSE [i \in 1..Len(inocs) |-> printInoculation(inocHeap[inocs[i]])]

listInoculationsByUser(userName, table, size) ==
  LET inocs == UserInocs(table, userName)
  IN IF findUserByName(table, userName, size) = 0 \/ Len(inocs) = 0
     THEN <<ErrArg(userName, "no such user")>>
     ELSE [i \in 1..Len(inocs) |-> printInoculation(inocHeap[inocs[i]])]

commandU(hasUserName, userName) ==
  /\ cmd' = "u"
  /\ out' = IF ~hasUserName THEN listAllInoculations(inoculationList)
            ELSE listInoculationsByUser(userName, userHashTable, HASH_SIZE)
  /\ UNCHANGED store

(***************************************************************************)
(* Argument strings.  The commands above take the arguments as the parsers *)
(* deliver them; the actions below take the text that follows the command  *)
(* letter, as processCommands passes it on, and parse it first.            *)
(***************************************************************************)
\* The string from its first character that is not white space.
RECURSIVE skipWhitespace(_)
skipWhitespace(ptr) ==
  IF ptr # <<>> /\ isspace(ptr[1]) THEN skipWhitespace(Tail(ptr)) ELSE ptr

\* The number of characters before the first white space (or the end).
RECURSIVE tokenLength(_)
tokenLength(ptr) ==
  IF ptr = <<>> \/ isspace(ptr[1]) THEN 0 ELSE 1 + tokenLength(Tail(ptr))

\* strchr: the index of the first c in str, 0 if there is none.
strchr(str, c) == FirstIndex({k \in 1..Len(str) : str[k] = c})

\* The text from index i to the end.
From(str, i) == SubSeq(str, i, Len(str))

\* The number of leading decimal digits, and their value.
RECURSIVE digitCount(_)
digitCount(str) ==
  IF str = <<>> \/ ~isdigit(str[1]) THEN 0 ELSE 1 + digitCount(Tail(str))

RECURSIVE digitsValue(_, _)
digitsValue(str, acc) ==
  IF str = <<>> THEN acc ELSE digitsValue(Tail(str), acc * 10 + (Head(str) - 48))

\* The conversion %d of sscanf, and atoi up to its result: white space, an
\* optional sign, decimal digits.  ok is FALSE when no digit is found.
scanInt(str) ==
  LET s1 == skipWhitespace(str)
      signed == s1 # <<>> /\ s1[1] \in {43, 45}
      s2 == IF signed THEN Tail(s1) ELSE s1
      n == digitCount(s2)
      v == digitsValue(SubSeq(s2, 1, n), 0)
  IN [ok |-> n > 0,
      value |-> IF signed /\ s1[1] = 45 THEN 0 - v ELSE v,
      rest |-> From(s2, n + 1)]

atoi(str) == IF scanInt(str).ok THEN scanInt(str).value ELSE 0

\* sscanf(str, "%d-%d-%d", ...): ok is TRUE when all three numbers are read.
sscanfDate(str) ==
  LET d == scanInt(str)
      m == scanInt(Tail(d.rest))
      y == scanInt(Tail(m.rest))
  IN IF ~d.ok \/ d.rest = <<>> \/ d.rest[1] # 45 THEN [ok |-> FALSE]
     ELSE IF ~m.ok \/ m.rest = <<>> \/ m.rest[1] # 45 THEN [ok |-> FALSE]
     ELSE IF ~y.ok THEN [ok |-> FALSE]
     ELSE [ok |-> TRUE, date |-> Date(d.value, m.value, y.value)]

\* parseUserName of command_d.c: a name in quotes, or a name up to the first
\* white space.  ok is FALSE for a quote that is not closed.
parseUserName(args) ==
  LET ptr == skipWhitespace(args)
      start == Tail(ptr)
      end == strchr(start, 34)
      n == tokenLength(ptr)
  IN IF ptr # <<>> /\ ptr[1] = 34
     THEN IF end = 0 THEN [ok |-> FALSE]
          ELSE [ok |-> TRUE, userName |-> SubSeq(start, 1, end - 1),
                rest |-> From(start, end + 1)]
     ELSE [ok |-> TRUE, userName |-> SubSeq(ptr, 1, n), rest |-> From(ptr, n + 2)]

\* processDeleteArgs up to the date checks: status "silent" is a return with
\* nothing printed, "noscan" a date that sscanf cannot read, "ok" comes with
\* the arguments read.
processDeleteArgs(args) ==
  LET user == parseUserName(args)
      ptr == skipWhitespace(user.rest)
      n == tokenLength(ptr)
      scan == sscanfDate(SubSeq(ptr, 1, n))
      lot == skipWhitespace(From(ptr, n + 1))
  IN IF ~user.ok THEN [status |-> "silent"]
     ELSE IF ptr = <<>>
     THEN [status |-> "ok",
           args |-> DeleteArgs(user.userName, FALSE, StartDate, FALSE, <<>>)]
     ELSE IF n >= 32 THEN [status |-> "silent"]
     ELSE IF ~scan.ok THEN [status |-> "noscan"]
     ELSE [status |-> "ok",
           args |-> DeleteArgs(user.userName, TRUE, scan.date, lot # <<>>, lot)]

\* d with its argument text.
commandDLine(line) ==
  LET parsed == processDeleteArgs(line)
  IN IF parsed.status = "ok" THEN commandD(parsed.args)
     ELSE /\ cmd' = "d"
          /\ out' = IF parsed.status = "noscan" THEN <<Err("invalid date")>> ELSE <<>>
          /\ UNCHANGED store

\* strtok_r(..., " ", &rest): the next token and the text after the delimiter
\* that ends it; ok is FALSE when only delimiters are left.
RECURSIVE skipSpaces(_)
skipSpaces(str) == IF str # <<>> /\ str[1] = 32 THEN skipSpaces(Tail(str)) ELSE str

strtok_r(str) ==
  LET s1 == skipSpaces(str)
      end == strchr(s1, 32)
  IN IF s1 = <<>> THEN [ok |-> FALSE, rest |-> <<>>]
     ELSE IF end = 0 THEN [ok |-> TRUE, token |-> s1, rest |-> <<>>]
     ELSE [ok |-> TRUE, token |-> SubSeq(s1, 1, end - 1), rest |-> From(s1, end + 1)]

\* parseArgumentsC: batch, validation date, doses, and the rest as the name.
parseArgumentsC(args) ==
  LET batch == strtok_r(args)
      validation == strtok_r(batch.rest)
      doses == strtok_r(validation.rest)
  IN IF ~batch.ok THEN [ok |-> FALSE]
     ELSE IF ~validation.ok \/ ~sscanfDate(validation.token).ok THEN [ok |-> FALSE]
     ELSE IF ~doses.ok THEN [ok |-> FALSE]
     ELSE IF doses.rest = <<>> THEN [ok |-> FALSE]
     ELSE [ok |-> TRUE, batch |-> batch.token,
           validation |-> sscanfDate(validation.token).date,
           doses |-> atoi(doses.token), name |-> doses.rest]

\* c with its argument text.
commandCLine(line) ==
  LET parsed == parseArgumentsC(line)
  IN IF parsed.ok
     THEN commandC(parsed.batch, parsed.name, parsed.validation, parsed.doses)
     ELSE /\ cmd' = "c"
          /\ out' = <<Err("No memory")>>
          /\ UNCHANGED store

\* extractArguments of command_a.c: the user name in quotes or up to the
\* first space, and the rest, from its first character that is not white
\* space, as the vaccine name.
extractArguments(args) ==
  LET quoted == args # <<>> /\ args[1] = 34
      end == IF quoted THEN strchr(Tail(args), 34) ELSE strchr(args, 32)
      userName == IF quoted THEN SubSeq(Tail(args), 1, end - 1)
                  ELSE SubSeq(args, 1, end - 1)
      rest == IF quoted THEN From(Tail(args), end + 1) ELSE From(args, end + 1)
      vaccineName == skipWhitespace(rest)
  IN IF end = 0 THEN [ok |-> FALSE]
     ELSE IF vaccineName = <<>> THEN [ok |-> FALSE]
     ELSE [ok |-> TRUE, userName |-> userName, vaccineName |-> vaccineName]

\* a with its argument text.
commandALine(line) ==
  LET parsed == extractArguments(line)
  IN IF parsed.ok THEN commandA(parsed.userName, parsed.vaccineName)
     ELSE /\ cmd' = "a"
          /\ out' = <<Err("invalid arguments")>>
          /\ UNCHANGED store

\* t with its argument text: no text is the query, and a text that is not
\* three numbers is refused by parseDate.
commandTLine(line) ==
  LET parsed == sscanfDate(line)
  IN IF line = <<>> THEN commandT(FALSE, currentDate)
     ELSE IF ~parsed.ok
     THEN /\ cmd' = "t"
          /\ out' = <<Err("invalid date")>>
          /\ UNCHANGED store
     ELSE commandT(TRUE, parsed.date)

(***************************************************************************)
(* Inputs and the command loop (project.c processCommands, commands.c)     *)
(***************************************************************************)
\* Register requests <<batch, name, validation, doses>> that pass every check
\* on the initial clock date.  "A" and "B" can share the group "V" with the
\* same expiry date; "B" can instead open the group "fc"; "383" expires
\* first and is out of date once the clock moves on.
RegisterA == <<LotA, NameV, NextDate, MaxDoses>>
RegisterBV == <<LotB, NameV, NextDate, 1>>
RegisterBFc == <<LotB, NameFc, NextDate, 1>>
Register383 == <<Lot383, NameV, StartDate, 1>>
RegisterC == <<LotC, NameV, NextDate, 1>>

\* Requests failing one check, and requests failing several at once.
InvalidRegisterInputs ==
  { <<LotBad, NameV, NextDate, 1>>,
    <<LotA, NameBad, NextDate, 1>>,
    <<LotA, NameV, EarlyDate, 1>>,
    <<LotA, NameV, BadDate, 1>>,
    <<LotA, NameV, NextDate, 0>>,
    <<LotBad, NameBad, BadDate, 0>>,
    <<LotA, NameBad, BadDate, 0>>,
    <<LotA, NameV, BadDate, 0>> }

\* Revoke requests: a user alone, a user and a date, a user, a date and a lot.
DeleteInputs(users, dates, lots) ==
  {DeleteArgs(u, FALSE, StartDate, FALSE, <<>>) : u \in users}
  \cup {DeleteArgs(u, TRUE, d, FALSE, <<>>) : u \in users, d \in dates}
  \cup {DeleteArgs(u, TRUE, d, TRUE, b) : u \in users, d \in dates, b \in lots}

\* One iteration of processCommands: any command, with any of the requests.
Commands(registers, users, names, dates, retires, deletes) ==
  \/ \E d \in dates : commandT(TRUE, d)
  \/ commandT(FALSE, StartDate)
  \/ \E r \in registers : commandC(r[1], r[2], r[3], r[4])
  \/ \E u \in users, n \in names : commandA(u, n)
  \/ \E b \in retires : commandR(b)
  \/ \E args \in deletes : commandD(args)

\* Two users and two lots of different vaccines; every kind of Revoke request.
Next ==
  Commands({RegisterA, RegisterBFc}, Users, Names, ClockDates, {LotB},
           DeleteInputs(Users, ClockDates, {LotA, LotB}))

Spec == Init /\ [][Next]_vars

\* One user and three lots, all of which can be in the same group.
NextLots ==
  Commands({RegisterA, RegisterBV, RegisterBFc, Register383}, {UserA}, Names,
           ClockDates, BatchIds \cup {<<>>}, DeleteInputs({UserA}, {StartDate}, {}))

SpecLots == Init /\ [][NextLots]_vars

\* The listing commands: l with no name or with some names, u with no user or
\* with a user.
Listings(nameLists, users) ==
  \/ \E args \in nameLists : commandL(args)
  \/ commandU(FALSE, <<>>)
  \/ \E u \in users : commandU(TRUE, u)

\* One user and two lots of one vaccine, with the listing commands.
NextList ==
  \/ Commands({RegisterA, RegisterBV}, {UserA}, {NameV}, ClockDates, {LotA},
              DeleteInputs({UserA}, {StartDate}, {}))
  \/ Listings({<<>>, <<NameV>>, <<NameFc, NameV>>}, Users)

SpecList == Init /\ [][NextList]_vars

\* Two users and two lots of different vaccines, Revoke by user, by date and
\* by lot, and the u listings.
NextLedger ==
  \/ Commands({RegisterA, RegisterBFc}, Users, Names, ClockDates, {<<>>},
              DeleteInputs(Users, {StartDate}, {LotA}))
  \/ commandU(FALSE, <<>>)
  \/ \E u \in Users : commandU(TRUE, u)

SpecLedger == Init /\ [][NextLedger]_vars

\* One user and three lots of one vaccine on the first day, with l for all
\* lots and for the vaccine.
NextGroups ==
  \/ Commands({RegisterA, RegisterBV, Register383}, {UserA}, {NameV}, {StartDate},
              BatchIds, DeleteInputs({UserA}, {StartDate}, {}))
  \/ \E args \in {<<>>, <<NameV>>} : commandL(args)

SpecGroups == Init /\ [][NextGroups]_vars

\* One more lot id than the capacity allows; one invalid request.
NextCap ==
  Commands({RegisterA, RegisterBV, Register383, RegisterC, <<LotC, NameV, BadDate, 1>>},
           {UserA}, {NameV}, {StartDate}, {LotA, LotC},
           DeleteInputs({UserA}, {StartDate}, {}))

SpecCap == Init /\ [][NextCap]_vars

\* Stores for the listing of many lots.  Lot k has the k-th of the one-character
\* ids "0".."9", "A".."F", one of three expiry dates and one of two names;
\* some lots have used doses, some are frozen.
MaxSortLots == 12

SortIds == <<48, 49, 50, 51, 52, 53, 54, 55, 56, 57, 65, 66, 67, 68, 69, 70>>

SortLot(k) ==
  [lot |-> <<SortIds[k]>>,
   name |-> IF k % 2 = 0 THEN NameV ELSE NameFc,
   validation |-> <<NextDate, StartDate, Date(1, 2, 2025)>>[(k % 3) + 1],
   doses |-> 2,
   dosesUsed |-> k % 3,
   isRemoved |-> IF k % 6 = 2 THEN 1 ELSE 0]

\* The orders of registration tried for n lots: 1..n with two lots exchanged,
\* rotated, and possibly reversed.
SortOrders(n) ==
  IF n = 0 THEN {<<>>}
  ELSE {[p \in 1..n |->
           LET q == IF rev THEN n + 1 - p ELSE p
               t == ((q - 1 + rot) % n) + 1
           IN IF t = i THEN j ELSE IF t = j THEN i ELSE t] :
          rot \in 0..(n - 1), rev \in BOOLEAN, i \in 1..n, j \in 1..n}

\* The id index and the name index after registering the lots order[1..n],
\* lot k at address k.
RECURSIVE HashAfter(_, _)
HashAfter(order, n) ==
  IF n = 0 THEN <<>>
  ELSE addVaccineLotToHash(HashAfter(order, n - 1), SortLot(order[n]).lot,
                           order[n], HASH_SIZE)

RECURSIVE NamesAfter(_, _)
NamesAfter(order, n) ==
  IF n = 0 THEN <<>>
  ELSE addVaccineLotToNameIndex(NamesAfter(order, n - 1), SortLot(order[n]).name,
                                order[n], HASH_SIZE)

\* The store after registering n lots in some order, using doses of some and
\* retiring some, with every inoculation revoked.
InitSort ==
  \E n \in {0, 1, 2, 3} \cup {MaxSortLots - 2, MaxSortLots - 1, MaxSortLots} :
    \E order \in SortOrders(n) :
      /\ currentDate = StartDate
      /\ lotHeap = [k \in 1..n |-> SortLot(k)]
      /\ hashTable = HashAfter(order, n)
      /\ nameHashTable = NamesAfter(order, n)
      /\ vaccineList = [p \in 1..n |-> order[n + 1 - p]]
      /\ vaccineCount = n
      /\ inocHeap = <<>>
      /\ userHashTable = <<>>
      /\ inoculationList = <<>>
      /\ cmd = ""
      /\ out = <<>>

NextSort == \E args \in {<<>>, <<NameV>>} : commandL(args)

SpecSort == InitSort /\ [][NextSort]_vars

\* Argument texts.  Numbers are written in decimal, dates as DD-MM-YYYY.
Sp == <<32>>
Quote == <<34>>

RECURSIVE NumText(_)
NumText(n) == IF n < 10 THEN <<48 + n>> ELSE NumText(n \div 10) \o <<48 + (n % 10)>>

DateText(d) ==
  <<48 + (d.day \div 10), 48 + (d.day % 10), 45,
    48 + (d.month \div 10), 48 + (d.month % 10), 45>> \o NumText(d.year)

RegisterText(r) == r[1] \o Sp \o DateText(r[3]) \o Sp \o NumText(r[4]) \o Sp \o r[2]

\* A token of 32 characters, one more than the date buffer holds.
LongToken == [i \in 1..32 |-> 49]

\* Register texts: complete ones, valid or failing a check, and texts with
\* arguments missing or with a date that is not three numbers.
RegisterLines ==
  {RegisterText(r) : r \in {RegisterA, RegisterBV, RegisterC,
                             <<LotBad, NameV, NextDate, 1>>,
                             <<LotA, NameBad, NextDate, 1>>,
                             <<LotC, NameV, EarlyDate, 1>>,
                             <<LotC, NameV, BadDate, 1>>,
                             <<LotC, NameV, NextDate, 0>>}}
  \cup {<<>>, LotC, LotC \o Sp \o DateText(NextDate),
        LotC \o Sp \o DateText(NextDate) \o Sp \o NumText(1),
        LotC \o Sp \o NameV \o Sp \o NumText(1) \o Sp \o NameV}

\* Administer texts: a plain and a quoted user name, an unknown vaccine, a
\* missing vaccine name, a quote that is not closed.
AdministerLines ==
  {UserA \o Sp \o NameV,
   Quote \o UserA \o Quote \o Sp \o NameV,
   UserA \o Sp \o NameFc,
   UserA,
   UserA \o Sp,
   Quote \o UserA \o Sp \o NameV}

\* Revoke texts: a user alone (plain, quoted, unknown), with a date (valid,
\* not a calendar date, later than the clock allows, not three numbers, too
\* long), with a date and a lot (known, unknown), and a quote not closed.
DeleteLines ==
  {UserA,
   Quote \o UserA \o Quote,
   UserFn,
   UserA \o Sp \o DateText(StartDate),
   UserA \o Sp \o DateText(BadDate),
   UserA \o Sp \o DateText(NextDate),
   UserA \o Sp \o NameV,
   UserA \o Sp \o LongToken,
   UserA \o Sp \o DateText(StartDate) \o Sp \o LotA,
   UserA \o Sp \o DateText(StartDate) \o Sp \o LotBad,
   Quote \o UserA,
   Quote \o UserA \o Sp \o DateText(StartDate)}

\* One user and three lots of one vaccine on the first day, with c, a and d
\* taking their argument texts.
NextLines ==
  \/ \E d \in {StartDate, EarlyDate} : commandT(TRUE, d)
  \/ \E line \in RegisterLines : commandCLine(line)
  \/ \E line \in AdministerLines : commandALine(line)
  \/ \E b \in {LotA, LotBad, <<>>} : commandR(b)
  \/ \E line \in DeleteLines : commandDLine(line)

SpecLines == Init /\ [][NextLines]_vars

\* The lot "A1F" of ten doses of "VaxX" that expires on 01-06-2025, the users
\* "Alice" and "a", and every command about them.
ScenarioRegister == LotA1F \o Sp \o DateText(JuneDate) \o Sp \o NumText(10) \o Sp \o NameVaxX
ScenarioAdminister == UserAlice \o Sp \o NameVaxX

NextScenario ==
  \/ \E d \in ClockDates : commandT(TRUE, d)
  \/ commandCLine(ScenarioRegister)
  \/ \E u \in {UserAlice, UserA} : commandALine(u \o Sp \o NameVaxX)
  \/ commandR(LotA1F)
  \/ \E line \in {UserAlice, UserA \o Sp \o DateText(StartDate)} : commandDLine(line)

SpecScenario == Init /\ [][NextScenario]_vars

\* Dates given to t: the clock dates, an earlier date, dates months and years
\* ahead, 29 February of a leap year and of a common year, and day 30 of
\* February.
LeapDate == Date(29, 2, 2028)
NoLeapDate == Date(29, 2, 2026)
ClockDateInputs == DateInputs \cup {JuneDate, LeapDate, NoLeapDate}

\* Texts given to t, each with the date it spells if it spells one: dates as
\* DD-MM-YYYY, a date without leading zeros, a date followed by more text, and
\* texts that are not three numbers.
ClockRequests ==
  {[text |-> DateText(d), isDate |-> TRUE, date |-> d] : d \in ClockDateInputs}
  \cup {[text |-> <<50, 45, 49, 45>> \o NumText(2025), isDate |-> TRUE, date |-> NextDate],
        [text |-> DateText(NextDate) \o <<120>>, isDate |-> TRUE, date |-> NextDate],
        [text |-> <<48, 50, 45, 48, 49>>, isDate |-> FALSE, date |-> StartDate],
        [text |-> <<97, 98>>, isDate |-> FALSE, date |-> StartDate]}

\* The clock command with every text, among the commands that use the clock.
NextClock ==
  \/ \E q \in ClockRequests : commandTLine(q.text)
  \/ commandTLine(<<>>)
  \/ \E r \in {RegisterA, RegisterBV} : commandC(r[1], r[2], r[3], r[4])
  \/ commandA(UserA, NameV)
  \/ commandR(LotA)
  \/ \E d \in {StartDate, NextDate} : commandD(DeleteArgs(UserA, TRUE, d, FALSE, <<>>))

SpecClock == Init /\ [][NextClock]_vars

\* Lots with ids of one, three and twenty characters, registered, given
\* doses, purged or frozen, and registered again.
RegisterLong == <<LotLong, NameV, NextDate, 1>>

NextHash ==
  \/ \E r \in {RegisterA, RegisterBFc, Register383, RegisterLong} :
       commandC(r[1], r[2], r[3], r[4])
  \/ \E n \in Names : commandA(UserA, n)
  \/ \E b \in {LotA, LotB, Lot383, LotLong, LotC} : commandR(b)

SpecHash == Init /\ [][NextHash]_vars

\* One user and one lot; requests that fail the checks.
NextErrors ==
  Commands({RegisterA} \cup InvalidRegisterInputs, {UserA}, NameInputs, DateInputs,
           BatchInputs \cup {<<>>}, DeleteInputs({UserA}, DateInputs, {LotA, LotB}))

SpecErrors == Init /\ [][NextErrors]_vars

(***************************************************************************)
(* Properties.  They read the store directly: the lot and inoculation      *)
(* objects themselves, not the lookups the commands use.                   *)
(***************************************************************************)
Range(seq) == {seq[i] : i \in 1..Len(seq)}

\* The lots linked in the id index.
IndexedLots(table) == UNION {Range(table[b]) : b \in DOMAIN table}

\* The lots of the store that carry the id batch.
LotsWithId(heap, batch) == {a \in DOMAIN heap : heap[a].lot = batch}

\* Dates as numbers, ids as strings: the order the spec states.
DateKey(d) == d.year * 10000 + d.month * 100 + d.day

RECURSIVE LexLess(_, _)
LexLess(a, b) ==
  IF b = <<>> THEN FALSE
  ELSE IF a = <<>> THEN TRUE
  ELSE IF Head(a) # Head(b) THEN Head(a) < Head(b)
  ELSE LexLess(Tail(a), Tail(b))

\* Lot x comes before lot y: earlier expiry, then smaller id.
Before(x, y) ==
  \/ DateKey(x.validation) < DateKey(y.validation)
  \/ DateKey(x.validation) = DateKey(y.validation) /\ LexLess(x.lot, y.lot)

\* The lots of vaccine name that can give a dose on the clock date.
Eligible(name) ==
  {a \in DOMAIN lotHeap :
     /\ lotHeap[a].name = name
     /\ lotHeap[a].isRemoved = 0
     /\ lotHeap[a].dosesUsed < lotHeap[a].doses
     /\ DateKey(lotHeap[a].validation) >= DateKey(currentDate)}

\* The ledger holds a record of user, dated today, from a lot of vaccine name.
AdministeredToday(user, name) ==
  \E r \in Range(inoculationList) :
    /\ inocHeap[r].user = user
    /\ inocHeap[r].date = currentDate
    /\ \E a \in DOMAIN lotHeap :
         lotHeap[a].lot = inocHeap[r].lot /\ lotHeap[a].name = name

AllUsers == Users
AllNames == NameInputs

\* C1: every batch in the store has 0 <= usedDoses <= totalDoses, and a frozen
\* batch has totalDoses = usedDoses.
C1_DoseBounds ==
  /\ IndexedLots(hashTable) = DOMAIN lotHeap
  /\ \A a \in DOMAIN lotHeap :
       /\ 0 <= lotHeap[a].dosesUsed
       /\ lotHeap[a].dosesUsed <= lotHeap[a].doses
       /\ lotHeap[a].isRemoved = 1 => lotHeap[a].doses = lotHeap[a].dosesUsed

\* A lot registered with two doses was frozen after one, next to a lot that
\* is used up without being frozen.
C1_Witness ==
  /\ \E a \in DOMAIN lotHeap :
       /\ lotHeap[a].lot = LotA
       /\ lotHeap[a].isRemoved = 1
       /\ lotHeap[a].dosesUsed = 1
  /\ \E a \in DOMAIN lotHeap :
       /\ lotHeap[a].isRemoved = 0
       /\ lotHeap[a].dosesUsed = lotHeap[a].doses

\* C2: a successful Administer uses the eligible lot of that name that comes
\* first by (expiry date, id); with no eligible lot and the user not yet
\* vaccinated today it reports "no stock" and changes nothing.
C2_Allocation ==
  [][\A u \in AllUsers, n \in AllNames :
       commandA(u, n) =>
         /\ (\E id \in BatchIds : out' = <<LotLine(id)>>) =>
              \E a \in Eligible(n) :
                /\ \A b \in Eligible(n) \ {a} : Before(lotHeap[a], lotHeap[b])
                /\ out' = <<LotLine(lotHeap[a].lot)>>
                /\ lotHeap' = [lotHeap EXCEPT ![a].dosesUsed = @ + 1]
         /\ (Eligible(n) = {} /\ ~AdministeredToday(u, n)) =>
              /\ out' = <<Err("no stock")>>
              /\ UNCHANGED store]_vars

\* An Administer used "A" although "B", with the same expiry date, stands
\* before it in the group and still has a dose.
C2_Witness ==
  /\ cmd = "a"
  /\ out = <<LotLine(LotA)>>
  /\ \E i, j \in 1..Len(NameLots(nameHashTable, NameV)) :
       LET x == lotHeap[NameLots(nameHashTable, NameV)[i]]
           y == lotHeap[NameLots(nameHashTable, NameV)[j]]
       IN /\ i < j
          /\ x.lot = LotB /\ y.lot = LotA
          /\ x.validation = y.validation
          /\ x.isRemoved = 0 /\ x.dosesUsed < x.doses

\* C3: while the ledger holds a record of the user for the vaccine name dated
\* today, Administer for that user and name reports "already vaccinated" and
\* changes nothing, whichever lot would be chosen now.
C3_AlreadyVaccinated ==
  [][\A u \in AllUsers, n \in AllNames :
       (AdministeredToday(u, n) /\ commandA(u, n)) =>
         /\ out' = <<Err("already vaccinated")>>
         /\ UNCHANGED store]_vars

\* The second Administer was refused although the lot used by the first is
\* used up and another lot of the name could give a dose.
C3_Witness ==
  /\ cmd = "a"
  /\ out = <<Err("already vaccinated")>>
  /\ \E r \in Range(inoculationList), a \in DOMAIN lotHeap :
       /\ inocHeap[r].date = currentDate
       /\ lotHeap[a].lot = inocHeap[r].lot
       /\ lotHeap[a].dosesUsed = lotHeap[a].doses
       /\ Eligible(lotHeap[a].name) # {}

\* The records a list of pointers leads to, in the list's order.
Records(list, heap) == [i \in 1..Len(list) |-> heap[list[i]]]

\* The users that have an entry in the user index.
KnownUsers(table) == UNION {{e.userName : e \in Range(table[b])} : b \in DOMAIN table}

\* The lots linked in the groups of the name index.
GroupedLots(table) ==
  UNION {UNION {Range(e.lots) : e \in Range(table[b])} : b \in DOMAIN table}

\* Lot a is linked in the id index, the list and the group of its name.
Present(table, nameTable, list, heap, a) ==
  /\ a \in DOMAIN heap
  /\ findVaccineByBatch(table, heap, heap[a].lot, HASH_SIZE) = a
  /\ a \in Range(list)
  /\ a \in Range(NameLots(nameTable, heap[a].name))

AllDeletes == DeleteInputs(Users, ClockDates, {LotA, LotB})

\* C4: a successful Administer appends one record (user, chosen lot, clock
\* date) to the user's sequence and puts it at the newest end of the ledger,
\* adds one to the chosen lot's used doses, and changes nothing else.
C4_AdministerFrame ==
  [][\A u \in AllUsers, n \in AllNames :
       (commandA(u, n) /\ \E id \in BatchIds : out' = <<LotLine(id)>>) =>
         \E a \in DOMAIN lotHeap :
           LET new == [user |-> u, lot |-> lotHeap[a].lot, date |-> currentDate]
           IN /\ out' = <<LotLine(lotHeap[a].lot)>>
              /\ lotHeap' = [lotHeap EXCEPT ![a].dosesUsed = @ + 1]
              /\ Records(inoculationList', inocHeap')
                   = <<new>> \o Records(inoculationList, inocHeap)
              /\ Records(UserInocs(userHashTable', u), inocHeap')
                   = Append(Records(UserInocs(userHashTable, u), inocHeap), new)
              /\ KnownUsers(userHashTable') = KnownUsers(userHashTable) \cup {u}
              /\ \A w \in AllUsers \ {u} :
                   Records(UserInocs(userHashTable', w), inocHeap')
                     = Records(UserInocs(userHashTable, w), inocHeap)
              /\ \A r \in DOMAIN inocHeap :
                   r \in DOMAIN inocHeap' /\ inocHeap'[r] = inocHeap[r]
              /\ UNCHANGED <<currentDate, hashTable, nameHashTable, vaccineList,
                             vaccineCount>>]_vars

\* An Administer has just added a record for a user who already had one,
\* while the other user has a record too.
C4_Witness ==
  /\ cmd = "a"
  /\ \E id \in BatchIds : out = <<LotLine(id)>>
  /\ inoculationList # <<>>
  /\ LET u == inocHeap[Head(inoculationList)].user
     IN /\ Len(UserInocs(userHashTable, u)) >= 2
        /\ \E w \in Users \ {u} : Len(UserInocs(userHashTable, w)) >= 1

\* C5: with a record of the user for the vaccine name dated today and no
\* eligible lot of that name, Administer reports "already vaccinated", not
\* "no stock".
C5_GuardBeforeStock ==
  [][\A u \in AllUsers, n \in AllNames :
       (AdministeredToday(u, n) /\ Eligible(n) = {} /\ commandA(u, n)) =>
         out' = <<Err("already vaccinated")>>]_vars

\* An Administer was refused as a repeat, and no vaccine the ledger records
\* for today has a lot left that could give a dose.
C5_Witness ==
  /\ cmd = "a"
  /\ out = <<Err("already vaccinated")>>
  /\ \E r \in Range(inoculationList) : inocHeap[r].date = currentDate
  /\ \A r \in Range(inoculationList), a \in DOMAIN lotHeap :
       (inocHeap[r].date = currentDate /\ lotHeap[a].lot = inocHeap[r].lot)
         => Eligible(lotHeap[a].name) = {}

\* C6: Retire of a lot with no used doses removes it from the id index, the
\* list and its name group; every other lot stays, unchanged, in all three.
C6_Purge ==
  [][\A b \in BatchIds :
       (commandR(b) /\ \E a \in LotsWithId(lotHeap, b) : lotHeap[a].dosesUsed = 0) =>
         /\ LotsWithId(lotHeap', b) = {}
         /\ \A a \in IndexedLots(hashTable') \cup Range(vaccineList')
                       \cup GroupedLots(nameHashTable') :
              a \in DOMAIN lotHeap' /\ lotHeap'[a].lot # b
         /\ findVaccineByBatch(hashTable', lotHeap', b, HASH_SIZE) = NULL
         /\ \A a \in DOMAIN lotHeap :
              lotHeap[a].lot # b =>
                /\ a \in DOMAIN lotHeap'
                /\ lotHeap'[a] = lotHeap[a]
                /\ Present(hashTable', nameHashTable', vaccineList', lotHeap', a)]_vars

\* A Retire has purged one of three registered lots; the other two remain.
C6_Witness ==
  /\ cmd = "r"
  /\ out = <<NumLine(0)>>
  /\ vaccineCount = 3
  /\ Cardinality(DOMAIN lotHeap) = 2
  /\ Len(vaccineList) = 2

\* C7: Retire of a lot with used doses keeps it in every index with no doses
\* available and the same used doses; from then on the lot never changes, so
\* no Administer takes a dose from it.
C7_Freeze ==
  [][/\ \A b \in BatchIds :
          (commandR(b) /\ \E a \in LotsWithId(lotHeap, b) : lotHeap[a].dosesUsed > 0) =>
            \E a \in LotsWithId(lotHeap, b) :
              /\ lotHeap' = [lotHeap EXCEPT ![a].isRemoved = 1,
                                            ![a].doses = lotHeap[a].dosesUsed]
              /\ Present(hashTable', nameHashTable', vaccineList', lotHeap', a)
     /\ \A a \in DOMAIN lotHeap :
          lotHeap[a].isRemoved = 1 =>
            /\ Present(hashTable', nameHashTable', vaccineList', lotHeap', a)
            /\ lotHeap'[a] = lotHeap[a]
            /\ lotHeap[a].doses - lotHeap[a].dosesUsed = 0
            /\ out' # <<LotLine(lotHeap[a].lot)>>]_vars

\* An Administer used "B" while the frozen "A", of the same vaccine and with
\* the same expiry date, comes first by id.
C7_Witness ==
  /\ cmd = "a"
  /\ out = <<LotLine(LotB)>>
  /\ \E a, b \in DOMAIN lotHeap :
       /\ lotHeap[a].lot = LotA /\ lotHeap[b].lot = LotB
       /\ lotHeap[a].isRemoved = 1
       /\ lotHeap[a].name = lotHeap[b].name
       /\ lotHeap[a].validation = lotHeap[b].validation

\* C8: Retire of a registered lot prints the used doses the lot had before
\* the call; Retire of an id that is not registered prints the unknown-lot
\* error and changes nothing.
C8_RetireResult ==
  [][\A b \in BatchInputs :
       commandR(b) =>
         IF LotsWithId(lotHeap, b) # {}
         THEN \E a \in LotsWithId(lotHeap, b) : out' = <<NumLine(lotHeap[a].dosesUsed)>>
         ELSE out' = <<ErrArg(b, "no such batch")>> /\ UNCHANGED store]_vars

\* A Retire has printed 1 and left the lot frozen with one used dose.
C8_Witness ==
  /\ cmd = "r"
  /\ out = <<NumLine(1)>>
  /\ \E a \in DOMAIN lotHeap :
       lotHeap[a].isRemoved = 1 /\ lotHeap[a].dosesUsed = 1

\* C9: Revoke with only a user name, for a user with records, prints the
\* number of that user's records; afterwards the ledger holds none of them
\* and the records of the other users in their previous order.
C9_RevokeAll ==
  [][\A args \in AllDeletes :
       LET ledger == Records(inoculationList, inocHeap)
           Mine(r) == r.user = args.userName
           Others(r) == r.user # args.userName
       IN (~args.hasDate /\ SelectSeq(ledger, Mine) # <<>> /\ commandD(args)) =>
            /\ out' = <<NumLine(Len(SelectSeq(ledger, Mine)))>>
            /\ Records(inoculationList', inocHeap') = SelectSeq(ledger, Others)
            /\ UserInocs(userHashTable', args.userName) = <<>>]_vars

\* A Revoke has removed a user's only record and left two of the other user.
C9_Witness ==
  /\ cmd = "d"
  /\ out = <<NumLine(1)>>
  /\ Len(inoculationList) = 2
  /\ \E u \in Users :
       /\ u \in KnownUsers(userHashTable)
       /\ UserInocs(userHashTable, u) = <<>>
       /\ \A r \in Range(inoculationList) : inocHeap[r].user # u

\* C10: after a Revoke the records left in each user's sequence are in the
\* order they had before.
C10_RevokeKeepsOrder ==
  [][\A args \in AllDeletes :
       commandD(args) =>
         \A u \in Users :
           LET Stays(r) == r \in Range(inoculationList')
           IN UserInocs(userHashTable', u)
                = SelectSeq(UserInocs(userHashTable, u), Stays)]_vars

\* The command printed one line, a number.
IsNum(lines) == Len(lines) = 1 /\ DOMAIN lines[1] = {"n"}

\* The command printed one line, an error message.
IsErr(lines) == Len(lines) = 1 /\ "err" \in DOMAIN lines[1]

\* Record r is one the Revoke request args asks to remove.
Matches(r, args) ==
  /\ r.user = args.userName
  /\ ~args.hasDate \/ r.date = args.date
  /\ ~args.hasLot \/ r.lot = args.lotId

\* C11: a Revoke whose filters validate removes from the ledger exactly the
\* records of the given user that agree with the date filter and the lot
\* filter, when given, and prints how many they are (possibly 0).
C11_RevokeMatching ==
  [][\A args \in AllDeletes :
       (cmd' = "d" /\ IsNum(out') /\ commandD(args)) =>
         LET ledger == Records(inoculationList, inocHeap)
             Hit(r) == Matches(r, args)
             Miss(r) == ~Matches(r, args)
         IN /\ out' = <<NumLine(Len(SelectSeq(ledger, Hit)))>>
            /\ Records(inoculationList', inocHeap') = SelectSeq(ledger, Miss)]_vars

\* A Revoke has removed one record and each of the two users is left with
\* one: the user of the request kept a record the filters did not match.
C11_Witness ==
  /\ cmd = "d"
  /\ out = <<NumLine(1)>>
  /\ \A u \in Users : Len(UserInocs(userHashTable, u)) = 1

\* The Revoke requests that include dates and lots failing the checks.
ErrorDeletes == DeleteInputs({UserA}, DateInputs, {LotA, LotB})

\* Date d is a calendar date not later than the clock date.
DateUsable(d) ==
  /\ isMonthValid(d.month)
  /\ isDayValid(d.day, d.month, d.year)
  /\ DateKey(d) <= DateKey(currentDate)

\* C12: Revoke checks the user, then the lot, then the date, and reports the
\* first check that fails.
C12_RevokeCheckOrder ==
  [][\A args \in ErrorDeletes :
       (cmd' = "d" /\ commandD(args)) =>
         IF \A r \in Range(inoculationList) : inocHeap[r].user # args.userName
         THEN out' = <<ErrArg(args.userName, "no such user")>>
         ELSE IF args.hasLot /\ LotsWithId(lotHeap, args.lotId) = {}
         THEN out' = <<ErrArg(args.lotId, "no such batch")>>
         ELSE (args.hasDate /\ ~DateUsable(args.date)) =>
                out' = <<Err("invalid date")>>]_vars

\* C13: a Revoke that reports an unknown user, an unknown lot or an invalid
\* date leaves the ledger, every user's sequence and every lot as they were.
C13_FailedRevokeKeepsState ==
  [][\A args \in ErrorDeletes :
       (/\ cmd' = "d"
        /\ commandD(args)
        /\ out' \in {<<ErrArg(args.userName, "no such user")>>,
                     <<ErrArg(args.lotId, "no such batch")>>,
                     <<Err("invalid date")>>}) =>
         UNCHANGED store]_vars

\* A Revoke naming an unknown lot was refused while the ledger holds a record
\* of the user dated today, which the user and date of the request match.
C13_Witness ==
  /\ cmd = "d"
  /\ out = <<ErrArg(LotB, "no such batch")>>
  /\ \E r \in Range(inoculationList) :
       inocHeap[r].user = UserA /\ inocHeap[r].date = currentDate

\* The places <<user name, position>> of the user index that hold pointer r.
UserRefs(table, r) ==
  UNION {{<<e.userName, i>> : i \in {k \in 1..Len(e.inoculations) : e.inoculations[k] = r}} :
           e \in UNION {Range(table[b]) : b \in DOMAIN table}}

\* C14: the ledger and the users' sequences hold the same records: every
\* ledger record is held exactly once, by the sequence of the user it names,
\* and every pointer in a user's sequence is a ledger record.
C14_LedgerMatchesUsers ==
  /\ Cardinality(Range(inoculationList)) = Len(inoculationList)
  /\ \A r \in Range(inoculationList) :
       /\ r \in DOMAIN inocHeap
       /\ Cardinality(UserRefs(userHashTable, r)) = 1
       /\ \A ref \in UserRefs(userHashTable, r) : ref[1] = inocHeap[r].user
  /\ \A b \in DOMAIN userHashTable :
       \A e \in Range(userHashTable[b]) :
         Range(e.inoculations) \subseteq Range(inoculationList)

\* A Revoke has removed the only record of one user while the other user
\* keeps two.
C14_Witness ==
  /\ cmd = "d"
  /\ out = <<NumLine(1)>>
  /\ Len(inoculationList) = 2
  /\ \E u \in Users : Len(UserInocs(userHashTable, u)) = 2
  /\ Cardinality(KnownUsers(userHashTable)) = 2

\* The places <<bucket, position>> of the chains of the id index.
ChainSlots(table) ==
  UNION {{<<b, i>> : i \in 1..Len(table[b])} : b \in DOMAIN table}

\* The places <<bucket, entry, position>> of the arrays of the name index.
GroupSlots(table) ==
  UNION {UNION {{<<b, k, i>> : i \in 1..Len(table[b][k].lots)} :
                  k \in 1..Len(table[b])} : b \in DOMAIN table}

\* C15: the id index, the name groups and the list hold the same lots, each
\* once; lot ids are pairwise distinct and each lot is in the group of its
\* own vaccine name.
C15_IndicesAgree ==
  LET lots == IndexedLots(hashTable)
  IN /\ lots \subseteq DOMAIN lotHeap
     /\ Range(vaccineList) = lots
     /\ GroupedLots(nameHashTable) = lots
     /\ Cardinality(ChainSlots(hashTable)) = Cardinality(lots)
     /\ Len(vaccineList) = Cardinality(lots)
     /\ Cardinality(GroupSlots(nameHashTable)) = Cardinality(lots)
     /\ \A a, b \in lots : a # b => lotHeap[a].lot # lotHeap[b].lot
     /\ \A a \in lots : Present(hashTable, nameHashTable, vaccineList, lotHeap, a)

\* A Retire has purged "B" and left "A" and "383", which share a hash chain
\* and a name group.
C15_Witness ==
  /\ cmd = "r"
  /\ out = <<NumLine(0)>>
  /\ {lotHeap[a].lot : a \in DOMAIN lotHeap} = {LotA, Lot383}
  /\ Len(NameLots(nameHashTable, NameV)) = 2
  /\ Len(Bucket(hashTable, hashBatch(LotA, HASH_SIZE))) = 2

\* Every Register request of the specifications.
AllRegisters ==
  {RegisterA, RegisterBV, RegisterBFc, Register383, RegisterC}
    \cup InvalidRegisterInputs

\* The line Register prints when its checks are made in the order id format,
\* name format, date, quantity, duplicate id, capacity.
RegisterAnswer(batch, name, validation, doses) ==
  IF ~isValidBatch(batch) THEN Err("invalid batch")
  ELSE IF ~isValidName(name) THEN Err("invalid name")
  ELSE IF ~isValidDate(validation, currentDate) THEN Err("invalid date")
  ELSE IF doses <= 0 THEN Err("invalid quantity")
  ELSE IF LotsWithId(lotHeap, batch) # {} THEN Err("duplicate batch number")
  ELSE IF vaccineCount >= maxVaccines THEN Err("too many vaccines")
  ELSE LotLine(batch)

\* C16: Register reports the first failing check in the order id format, name
\* format, date, quantity, duplicate id, capacity; an id already present is
\* reported as a duplicate even when the lot count has reached the cap.
C16_RegisterCheckOrder ==
  [][\A r \in AllRegisters :
       (cmd' = "c" /\ commandC(r[1], r[2], r[3], r[4])) =>
         out' = <<RegisterAnswer(r[1], r[2], r[3], r[4])>>]_vars

\* C17: a successful Register prints the id and adds one lot with the given
\* doses, no used doses and not frozen, to the id index, to the group of its
\* name (made if absent) and to the front of the list; the lots, users and
\* inoculation records that existed are unchanged.
C17_RegisterFrame ==
  [][\A r \in AllRegisters :
       (cmd' = "c" /\ out' = <<LotLine(r[1])>> /\ commandC(r[1], r[2], r[3], r[4])) =>
         \E a \in DOMAIN lotHeap' \ DOMAIN lotHeap :
           /\ DOMAIN lotHeap' = DOMAIN lotHeap \cup {a}
           /\ lotHeap'[a] = [lot |-> r[1], name |-> r[2], validation |-> r[3],
                             doses |-> r[4], dosesUsed |-> 0, isRemoved |-> 0]
           /\ \A b \in DOMAIN lotHeap' :
                Present(hashTable', nameHashTable', vaccineList', lotHeap', b)
           /\ \A b \in DOMAIN lotHeap : lotHeap'[b] = lotHeap[b]
           /\ IndexedLots(hashTable') = IndexedLots(hashTable) \cup {a}
           /\ GroupedLots(nameHashTable') = GroupedLots(nameHashTable) \cup {a}
           /\ vaccineList' = <<a>> \o vaccineList
           /\ NameLots(nameHashTable', r[2]) = Append(NameLots(nameHashTable, r[2]), a)
           /\ \A n \in Names \ {r[2]} :
                NameLots(nameHashTable', n) = NameLots(nameHashTable, n)
           /\ UNCHANGED <<currentDate, inocHeap, userHashTable, inoculationList>>]_vars

\* Register has added "383" as the third lot of group "V", in the hash chain
\* that already held "A", while the ledger holds a record.
C17_Witness ==
  /\ cmd = "c"
  /\ out = <<LotLine(Lot383)>>
  /\ Len(NameLots(nameHashTable, NameV)) = 3
  /\ Len(Bucket(hashTable, hashString(Lot383, HASH_SIZE))) = 2
  /\ inoculationList # <<>>

\* A Register request that passes the checks of format, date and quantity
\* and whose id is not in the store.
Registrable(batch, name, validation, doses) ==
  /\ isValidBatch(batch)
  /\ isValidName(name)
  /\ isValidDate(validation, currentDate)
  /\ doses > 0
  /\ LotsWithId(lotHeap, batch) = {}

\* C18: the store never holds more lots than the capacity passed to Register,
\* and a Register that passes every other check when the store is full
\* reports the capacity error and adds nothing.
C18_Capacity ==
  [][/\ Cardinality(DOMAIN lotHeap') <= maxVaccines
     /\ Len(vaccineList') <= maxVaccines
     /\ Cardinality(ChainSlots(hashTable')) <= maxVaccines
     /\ \A r \in AllRegisters :
          (/\ cmd' = "c"
           /\ commandC(r[1], r[2], r[3], r[4])
           /\ Registrable(r[1], r[2], r[3], r[4])
           /\ Cardinality(DOMAIN lotHeap) >= maxVaccines) =>
            /\ out' = <<Err("too many vaccines")>>
            /\ UNCHANGED store]_vars

\* Register has refused a new id for capacity: the store is full and none of
\* its lots has the id "C" or the id "383".
C18_Witness ==
  /\ cmd = "c"
  /\ out = <<Err("too many vaccines")>>
  /\ Cardinality(DOMAIN lotHeap) = maxVaccines
  /\ \E id \in {LotC, Lot383} : LotsWithId(lotHeap, id) = {}

\* Line x of a listing comes before line y: earlier expiry, then smaller id.
LineBefore(x, y) ==
  \/ DateKey(x.validation) < DateKey(y.validation)
  \/ DateKey(x.validation) = DateKey(y.validation) /\ LexLess(x.lot, y.lot)

\* C19: the listing of all lots has one line for each lot of the store,
\* frozen ones included, with the available doses doses - dosesUsed, and the
\* lines are in ascending order of (expiry date, id), whatever the number of
\* lots.
C19_ListAllSorted ==
  [][(cmd' = "l" /\ commandL(<<>>)) =>
       /\ Len(out') = Cardinality(DOMAIN lotHeap)
       /\ \A a \in DOMAIN lotHeap :
            Cardinality({i \in 1..Len(out') :
                           out'[i] = [name |-> lotHeap[a].name,
                                      lot |-> lotHeap[a].lot,
                                      validation |-> lotHeap[a].validation,
                                      available |-> lotHeap[a].doses - lotHeap[a].dosesUsed,
                                      used |-> lotHeap[a].dosesUsed]}) = 1
       /\ \A i, j \in 1..Len(out') : i < j => LineBefore(out'[i], out'[j])]_vars

\* All lots of a store above the insertion-sort threshold have been listed;
\* the list of the store is not in the listed order and a frozen lot is
\* among the lines.
C19_Witness ==
  /\ cmd = "l"
  /\ Len(out) > 10
  /\ Len(out) = Len(vaccineList)
  /\ lotHeap[vaccineList[1]].lot # out[1].lot
  /\ \E a \in DOMAIN lotHeap : lotHeap[a].isRemoved = 1

\* C20: the listing commands l and u change nothing in the store, and the
\* listing of all lots is what a second listing right after it prints.
C20_ListingsReadOnly ==
  [][cmd' \in {"l", "u"} =>
       /\ UNCHANGED store
       /\ commandL(<<>>) => out' = listAllVaccines(vaccineList)']_vars

\* All lots have been listed from a list that is not in the listed order,
\* while the ledger holds a record.
C20_Witness ==
  /\ cmd = "l"
  /\ Len(out) = 2
  /\ Len(vaccineList) = 2
  /\ "available" \in DOMAIN out[1]
  /\ lotHeap[vaccineList[1]].lot # out[1].lot
  /\ inoculationList # <<>>

\* The lines of a listing that are about the user u, in the order printed.
LinesOf(lines, u) == SelectSeq(lines, LAMBDA l : l.user = u)

\* C21: u with no argument prints every ledger record once, oldest first (so
\* with dates that never decrease), and u with the name of a user who has
\* records prints that user's records in the order of the global listing.
C21_ListingOrder ==
  [][cmd' = "u" =>
       /\ commandU(FALSE, <<>>) =>
            /\ Len(out') = Len(inoculationList)
            /\ \A i \in 1..Len(out') :
                 out'[i] = inocHeap[inoculationList[Len(inoculationList) + 1 - i]]
            /\ \A i \in 1..Len(out'), j \in 1..Len(out') :
                 i < j => DateKey(out'[i].date) <= DateKey(out'[j].date)
       /\ \A u \in Users :
            (commandU(TRUE, u) /\ \E a \in Range(inoculationList) : inocHeap[a].user = u)
              => out' = LinesOf(listAllInoculations(inoculationList), u)]_vars

\* The ledger records of the user u.
LedgerOf(u) == {a \in Range(inoculationList) : inocHeap[a].user = u}

LotsNamed(name) == {a \in Range(vaccineList) : lotHeap[a].name = name}

\* lines answers the names one after the other: one "no such vaccine" line
\* for a name no lot of the store carries, else one line for each lot of
\* that name.
RECURSIVE AnswersNames(_, _)
AnswersNames(lines, names) ==
  IF names = <<>> THEN lines = <<>>
  ELSE LET group == LotsNamed(Head(names))
           k == IF group = {} THEN 1 ELSE Cardinality(group)
           part == SubSeq(lines, 1, k)
       IN /\ Len(lines) >= k
          /\ IF group = {}
             THEN part = <<ErrArg(Head(names), "no such vaccine")>>
             ELSE Range(part) = {printVaccine(lotHeap[a]) : a \in group}
          /\ AnswersNames(SubSeq(lines, k + 1, Len(lines)), Tail(names))

\* C23: l with names answers each name on its own: "no such vaccine" exactly
\* when the store has no lot of that name (no group, or a group emptied by
\* purges), else every lot of the group exactly once.
C23_ListByName ==
  [][\A args \in {<<NameV>>, <<NameFc, NameV>>} :
       (cmd' = "l" /\ commandL(args)) => AnswersNames(out', args)]_vars

\* The group "V" was emptied by a purge and then listed after the absent "fc".
C23_Witness ==
  /\ cmd = "l"
  /\ out = <<ErrArg(NameFc, "no such vaccine"), ErrArg(NameV, "no such vaccine")>>
  /\ findVaccineByName(nameHashTable, NameV, HASH_SIZE) # 0
  /\ findVaccineByName(nameHashTable, NameFc, HASH_SIZE) = 0
  /\ vaccineCount > 0

\* C24: a c, a or r command that answers with an error line leaves the whole
\* store as it was: lots, both lot indices, the list, the counter, users,
\* ledger and clock.
C24_ErrorsKeepState ==
  [][(cmd' \in {"c", "a", "r"} /\ IsErr(out')) => UNCHANGED store]_vars

\* A Register was refused for capacity while the ledger held a record.
C24_Witness ==
  /\ cmd = "c"
  /\ out = <<Err("too many vaccines")>>
  /\ Len(vaccineList) = maxVaccines
  /\ inoculationList # <<>>

\* The one line a command prints when it succeeds: a lot id (c, a), a count
\* (r, d) or a date (t).
IsAnswer(lines) == Len(lines) = 1 /\ DOMAIN lines[1] \in {{"lot"}, {"n"}, {"date"}}

\* C25: a c, a, r, d or t command that does not succeed prints exactly one
\* error line, also when its argument text cannot be parsed.
C25_OneLinePerFailure ==
  [][(cmd' \in {"c", "a", "r", "d", "t"} /\ ~IsAnswer(out')) => IsErr(out')]_vars

\* The lots with the id "A1F", and the records of the ledger.
ScenarioLots == {lotHeap[a] : a \in LotsWithId(lotHeap, LotA1F)}
ScenarioLedger == {inocHeap[a] : a \in Range(inoculationList)}

\* The store as initializeDataStructures and main leave it.
InitialStore ==
  /\ currentDate = StartDate
  /\ lotHeap = <<>> /\ hashTable = <<>> /\ nameHashTable = <<>>
  /\ vaccineList = <<>> /\ vaccineCount = 0
  /\ inocHeap = <<>> /\ userHashTable = <<>> /\ inoculationList = <<>>

\* The store after the Register of the scenario, with u doses used.
ScenarioRegistered(u) ==
  /\ currentDate = StartDate
  /\ ScenarioLots = {[lot |-> LotA1F, name |-> NameVaxX, validation |-> JuneDate,
                      doses |-> 10, dosesUsed |-> u, isRemoved |-> 0]}
  /\ Len(vaccineList) = 1

ScenarioFrozen ==
  \E l \in ScenarioLots : l.isRemoved = 1 /\ l.dosesUsed = 1 /\ l.doses - l.dosesUsed = 0

\* C26: from the initial state on 01-01-2025, "c A1F 01-06-2025 10 VaxX"
\* prints A1F; "a Alice VaxX" prints A1F and leaves one dose used; the same
\* command on the same day prints "already vaccinated"; "r A1F" prints 1 and
\* freezes the lot, which has no available dose in any later state.
C26_Scenario ==
  [][/\ (InitialStore /\ cmd' = "c" /\ commandCLine(ScenarioRegister))
         => (out' = <<LotLine(LotA1F)>> /\ ScenarioRegistered(0)')
     /\ (ScenarioRegistered(0) /\ inoculationList = <<>>
          /\ cmd' = "a" /\ commandALine(ScenarioAdminister))
         => /\ out' = <<LotLine(LotA1F)>>
            /\ ScenarioRegistered(1)'
            /\ ScenarioLedger' = {[user |-> UserAlice, lot |-> LotA1F, date |-> StartDate]}
     /\ (ScenarioRegistered(1)
          /\ ScenarioLedger = {[user |-> UserAlice, lot |-> LotA1F, date |-> StartDate]}
          /\ cmd' = "a" /\ commandALine(ScenarioAdminister))
         => (out' = <<Err("already vaccinated")>> /\ UNCHANGED store)
     /\ (ScenarioRegistered(1) /\ cmd' = "r" /\ commandR(LotA1F))
         => (out' = <<NumLine(1)>> /\ ScenarioFrozen')
     /\ ScenarioFrozen => ScenarioFrozen']_vars

\* The lot was frozen after one dose and, a day later, a request for the
\* vaccine found no stock.
C26_Witness ==
  /\ ScenarioFrozen
  /\ currentDate = NextDate
  /\ cmd = "a"
  /\ out = <<Err("no stock")>>
  /\ Cardinality(ScenarioLedger) = 1

\* The array of the name entry for the vaccine name, <<>> if there is no entry.
GroupArray(table, name) ==
  LET entries == {e \in UNION {Range(table[b]) : b \in DOMAIN table} : e.name = name}
  IN IF entries = {} THEN <<>> ELSE (CHOOSE e \in entries : TRUE).lots

Reorderings(array) ==
  {[i \in 1..Len(array) |-> array[p[i]]] :
     p \in {q \in [1..Len(array) -> 1..Len(array)] :
              \A i, j \in 1..Len(array) : q[i] = q[j] => i = j}}

\* C28: the lot findOldestValidLotFromList picks from a name group on a date
\* is the same for every order of the group's array; when a purge reorders
\* the array, the pick is the one from the array with the purged lot taken
\* out in place, and is unchanged if another lot than the pick was purged.
C28_ChoiceIgnoresOrder ==
  [][\A name \in Names, date \in ClockDates :
       LET array == GroupArray(nameHashTable, name)
           pick == findOldestValidLotFromList(array, date)
           left == SelectSeq(array, LAMBDA a : a \in Range(vaccineList'))
       IN /\ \A other \in Reorderings(array) :
               findOldestValidLotFromList(other, date) = pick
          /\ (cmd' = "r" /\ Len(vaccineList') = Len(vaccineList) - 1)
               => /\ findOldestValidLotFromList(GroupArray(nameHashTable, name), date)'
                       = findOldestValidLotFromList(left, date)
                  /\ (pick \in Range(vaccineList'))
                       => findOldestValidLotFromList(GroupArray(nameHashTable, name),
                                                     date)' = pick]_vars

\* The purge of "383" has put "B" in front of "A" in the group of "V"; both
\* are usable and expire on the same day, and the pick is "A", the second
\* element of the array.
C28_Witness ==
  /\ cmd = "r"
  /\ Len(GroupArray(nameHashTable, NameV)) = 2
  /\ lotHeap[GroupArray(nameHashTable, NameV)[1]].lot = LotB
  /\ lotHeap[GroupArray(nameHashTable, NameV)[2]].lot = LotA
  /\ lotHeap[vaccineList[1]].lot = LotB
  /\ findOldestValidLotFromList(GroupArray(nameHashTable, NameV), currentDate)
       = GroupArray(nameHashTable, NameV)[2]
  /\ isLotValidAndAvailable(lotHeap[GroupArray(nameHashTable, NameV)[1]], currentDate)

\* C29: the counter that c compares with the capacity is the number of lots
\* in the store.
C29_CounterMatchesStore == vaccineCount = Cardinality(Range(vaccineList))

\* The ledger records that name the lot at address a.
RecordsOfLot(a) == {r \in Range(inoculationList) : inocHeap[r].lot = lotHeap[a].lot}

\* C30: a d command, whatever it answers, leaves every lot and the lot
\* structures as they were, so a revoked dose is not given back; and every
\* lot of the store has at least as many doses used as there are ledger
\* records that name it.
C30_RevokeKeepsLots ==
  [][/\ cmd' = "d" => UNCHANGED <<lotHeap, hashTable, nameHashTable, vaccineList,
                                  vaccineCount>>
     /\ \A a \in Range(vaccineList) :
          lotHeap[a].dosesUsed >= Cardinality(RecordsOfLot(a))
     /\ \A a \in Range(vaccineList') :
          lotHeap'[a].dosesUsed >= Cardinality(RecordsOfLot(a)')]_vars

\* A Revoke has removed the last record that named a lot; the lot still has
\* its used doses.
C30_Witness ==
  /\ cmd = "d"
  /\ out = <<NumLine(2)>>
  /\ inoculationList = <<>>
  /\ \E a \in Range(vaccineList) : lotHeap[a].dosesUsed = 2 /\ lotHeap[a].isRemoved = 0
\* C31: every ledger record names a lot that is still in the store, linked
\* in the id index, the list and its name group, with at least one dose
\* used: a lot with used doses is frozen by r, never purged.
C31_RecordsNameStoredLots ==
  \A r \in Range(inoculationList) :
    \E a \in Range(vaccineList) :
      /\ lotHeap[a].lot = inocHeap[r].lot
      /\ Present(hashTable, nameHashTable, vaccineList, lotHeap, a)
      /\ lotHeap[a].dosesUsed >= 1

\* A lot with a ledger record has been retired: it is frozen and still there.
C31_Witness ==
  /\ cmd = "r"
  /\ out = <<NumLine(1)>>
  /\ \E r \in Range(inoculationList) :
       \E a \in Range(vaccineList) :
         /\ lotHeap[a].lot = inocHeap[r].lot
         /\ lotHeap[a].isRemoved = 1
         /\ lotHeap[a].doses = 1
\* The vaccine names of the lots of the store that carry the id batch.
NamesOfId(batch) == {lotHeap[a].name : a \in LotsWithId(lotHeap, batch) \cap Range(vaccineList)}

\* C32: the ledger holds at most one record per user, vaccine name and date:
\* two distinct records of the same user and the same date come from lots of
\* different vaccine names.
C32_OnePerUserNameDate ==
  \A r1, r2 \in Range(inoculationList) :
    (/\ r1 # r2
     /\ inocHeap[r1].user = inocHeap[r2].user
     /\ inocHeap[r1].date = inocHeap[r2].date)
    => NamesOfId(inocHeap[r1].lot) \cap NamesOfId(inocHeap[r2].lot) = {}

\* A user with two records of the same date (of different vaccines) and a
\* record of an earlier date has just been refused a second dose.
C32_Witness ==
  /\ cmd = "a"
  /\ out = <<Err("already vaccinated")>>
  /\ \E r1, r2, r3 \in Range(inoculationList) :
       /\ r1 # r2
       /\ inocHeap[r1].user = inocHeap[r2].user
       /\ inocHeap[r1].date = inocHeap[r2].date
       /\ inocHeap[r3].user = inocHeap[r1].user
       /\ inocHeap[r3].date # inocHeap[r1].date
       /\ NamesOfId(inocHeap[r3].lot) = NamesOfId(inocHeap[r1].lot)
\* C33: no ledger record is dated after the clock date, and the ledger listed
\* oldest first, as u with no argument lists it, has dates that never
\* decrease.
C33_LedgerChronological ==
  LET lines == listAllInoculations(inoculationList)
  IN /\ \A r \in Range(inoculationList) :
          DateKey(inocHeap[r].date) <= DateKey(currentDate)
     /\ \A i \in 1..Len(lines), j \in 1..Len(lines) :
          i < j => DateKey(lines[i].date) <= DateKey(lines[j].date)

\* Three doses were given, all to one user, and a d has removed one record.
\* The user's array still holds the oldest record first, so the record
\* removed was neither the first nor the last given: it was the middle one.
C33_Witness ==
  /\ cmd = "d"
  /\ out = <<NumLine(1)>>
  /\ Len(inoculationList) = 2
  /\ \A a \in Range(vaccineList) : lotHeap[a].dosesUsed = lotHeap[a].doses
  /\ Cardinality(Range(vaccineList)) = 2
  /\ KnownUsers(userHashTable) = {UserA}
  /\ inocHeap[inoculationList[2]].date = StartDate
  /\ inocHeap[inoculationList[1]].date = NextDate
  /\ UserInocs(userHashTable, UserA) = <<inoculationList[2], inoculationList[1]>>
\* C34: t with a text that spells a calendar date not earlier than the clock
\* date sets the clock to that date; t with any other text (an earlier date,
\* a date that is not in the calendar, a text that is not a date) or with no
\* text leaves the clock as it is; no other command changes the clock.  So
\* the clock never moves backwards.
C34_ClockMonotonic ==
  [][/\ cmd' = "t" =>
          /\ \A q \in ClockRequests :
               commandTLine(q.text) =>
                 currentDate' =
                   IF /\ q.isDate
                      /\ isMonthValid(q.date.month)
                      /\ isDayValid(q.date.day, q.date.month, q.date.year)
                      /\ DateKey(q.date) >= DateKey(currentDate)
                   THEN q.date
                   ELSE currentDate
          /\ commandTLine(<<>>) => UNCHANGED currentDate
     /\ cmd' # "t" => UNCHANGED currentDate
     /\ DateKey(currentDate') >= DateKey(currentDate)]_vars

\* The clock was advanced to the next day, a dose was given, the clock was
\* advanced to 29 February of a leap year, and a t has just been refused.
C34_Witness ==
  /\ cmd = "t"
  /\ out = <<Err("invalid date")>>
  /\ currentDate = LeapDate
  /\ \E r \in Range(inoculationList) : inocHeap[r].date = NextDate
\* The doses a lot can still give.
AvailableDoses(lot) == IF lot.isRemoved = 1 THEN 0 ELSE lot.doses - lot.dosesUsed

\* C35: as long as a lot is in the store, no command lowers its used doses
\* and only a raises them; no command raises its doses and only r lowers
\* them, to the used doses; so the doses it can still give never increase.
C35_DosesMonotonic ==
  [][\A a \in DOMAIN lotHeap \cap DOMAIN lotHeap' :
       lotHeap'[a].lot = lotHeap[a].lot =>
         /\ lotHeap'[a].dosesUsed >= lotHeap[a].dosesUsed
         /\ lotHeap'[a].dosesUsed > lotHeap[a].dosesUsed => cmd' = "a"
         /\ lotHeap'[a].doses <= lotHeap[a].doses
         /\ lotHeap'[a].doses < lotHeap[a].doses =>
              cmd' = "r" /\ lotHeap'[a].doses = lotHeap'[a].dosesUsed
         /\ AvailableDoses(lotHeap'[a]) <= AvailableDoses(lotHeap[a])]_vars

\* A lot registered with two doses gave one and was retired: its doses were
\* lowered to one; a record of the dose has since been revoked.
C35_Witness ==
  /\ cmd = "d"
  /\ out = <<NumLine(1)>>
  /\ \E a \in Range(vaccineList) :
       /\ lotHeap[a].lot = LotA
       /\ lotHeap[a].isRemoved = 1
       /\ lotHeap[a].doses = 1
       /\ lotHeap[a].dosesUsed = 1
       /\ RecordsOfLot(a) = {}
\* C36: r on a lot with used doses prints that number and leaves it as the
\* lot's doses; a frozen lot keeps its doses whatever command follows; r on
\* a frozen lot prints the same number again and changes nothing; r with an
\* id that is not in the store, as after a purge, answers "no such batch"
\* and changes nothing.
C36_RetireAgain ==
  [][/\ \A a \in DOMAIN lotHeap :
          lotHeap[a].isRemoved = 1 =>
            /\ a \in DOMAIN lotHeap'
            /\ lotHeap'[a] = lotHeap[a]
            /\ lotHeap[a].doses = lotHeap[a].dosesUsed
     /\ cmd' = "r" =>
          /\ \A a \in LotsWithId(lotHeap, LotA1F) :
               (commandR(LotA1F) /\ lotHeap[a].dosesUsed > 0) =>
                 /\ out' = <<NumLine(lotHeap'[a].doses)>>
                 /\ lotHeap[a].isRemoved = 1 => UNCHANGED store
          /\ (commandR(LotA1F) /\ LotsWithId(lotHeap, LotA1F) = {}) =>
               /\ out' = <<ErrArg(LotA1F, "no such batch")>>
               /\ UNCHANGED store]_vars

\* The lot of ten doses gave one and is frozen with one; r has answered 1
\* on a later day, after the record of the dose was revoked.
C36_Witness ==
  /\ cmd = "r"
  /\ out = <<NumLine(1)>>
  /\ currentDate = NextDate
  /\ inoculationList = <<>>
  /\ \E a \in LotsWithId(lotHeap, LotA1F) :
       lotHeap[a].isRemoved = 1 /\ lotHeap[a].doses = 1 /\ lotHeap[a].dosesUsed = 1
\* C37: a d of a user, with no date or with the clock date and with no lot,
\* that answers a number leaves the user with no record of the clock date,
\* whatever the vaccine; and the a that follows a d that removed records,
\* for a user and a vaccine without a record of the clock date, is not
\* answered "already vaccinated": it gives a further dose of a lot of that
\* vaccine when one is eligible and answers "no stock" otherwise.
C37_AdministerAfterRevoke ==
  [][/\ cmd' = "d" =>
          \A args \in AllDeletes :
            (/\ ~args.hasLot
             /\ args.hasDate => args.date = currentDate
             /\ IsNum(out')
             /\ commandD(args))
            => \A n \in Names : ~AdministeredToday(args.userName, n)'
     /\ (cmd = "d" /\ IsNum(out) /\ out # <<NumLine(0)>> /\ cmd' = "a") =>
          \A u \in Users, n \in Names :
            (commandA(u, n) /\ ~AdministeredToday(u, n)) =>
              IF Eligible(n) = {}
              THEN out' = <<Err("no stock")>> /\ UNCHANGED store
              ELSE \E a \in Eligible(n) :
                     /\ out' = <<LotLine(lotHeap[a].lot)>>
                     /\ lotHeap'[a].dosesUsed = lotHeap[a].dosesUsed + 1
                     /\ AdministeredToday(u, n)']_vars

\* On the initial clock date one user was given both doses of a lot: the
\* second can only have been given after the record of the first was
\* revoked.
C37_Witness ==
  /\ cmd = "a"
  /\ out = <<LotLine(LotA)>>
  /\ currentDate = StartDate
  /\ KnownUsers(userHashTable) = {UserA}
  /\ Len(inoculationList) = 1
  /\ \E a \in Range(vaccineList) : lotHeap[a].lot = LotA /\ lotHeap[a].dosesUsed = 2
\* The hash the spec states, computed on four 8-bit digits <<d3, d2, d1, d0>>:
\* one step is h * 33 + c modulo 2^32.
djb2Step(h, c) ==
  LET t0 == h[4] * 33 + c
      t1 == h[3] * 33 + (t0 \div 256)
      t2 == h[2] * 33 + (t1 \div 256)
      t3 == h[1] * 33 + (t2 \div 256)
  IN <<t3 % 256, t2 % 256, t1 % 256, t0 % 256>>

RECURSIVE djb2Fold(_, _)
djb2Fold(h, str) ==
  IF str = <<>> THEN h ELSE djb2Fold(djb2Step(h, Head(str)), Tail(str))

\* 5381 = 21 * 256 + 5, folded over str and reduced modulo size.
djb2(str, size) ==
  LET h == djb2Fold(<<0, 0, 21, 5>>, str)
  IN ((((((h[1] % size) * 256 + h[2]) % size) * 256 + h[3]) % size) * 256 + h[4]) % size

\* Strings to hash: the empty string, ids and names of the model, a string
\* long enough for the fold to wrap many times, and strings with bytes of 128
\* or more (the name Joao with a tilde on the a, in UTF-8; a single byte 195; bytes 255).
NameJoao == <<74, 111, 195, 163, 111>>
HashStrings ==
  {<<>>, LotA, Lot383, LotB, LotA1F, LotLong, NameV, NameFc, NameVaxX, UserA,
   UserAlice, NameJoao, <<195>>, <<255, 255, 255, 255, 255, 255, 255>>}

\* Table sizes: the program's, and others, small, even and larger.
HashSizes == {1, 2, 10, HASH_SIZE, 1024, 30011}

IsAscii(str) == \A i \in 1..Len(str) : str[i] < 128

\* Every lot of the id index is in the bucket both hash functions give for
\* its id, and an r that purges a lot finds it there and takes it out of
\* the index and the store.
PurgeFindsLot ==
  /\ \A b \in DOMAIN hashTable : \A a \in Range(hashTable[b]) :
       /\ b = hashBatch(lotHeap[a].lot, HASH_SIZE)
       /\ b = hashString(lotHeap[a].lot, HASH_SIZE)
       /\ b = djb2(lotHeap[a].lot, HASH_SIZE)
  /\ \A a \in DOMAIN lotHeap :
       (/\ cmd' = "r"
        /\ lotHeap[a].dosesUsed = 0
        /\ commandR(lotHeap[a].lot))
       => /\ hashVictim(hashTable, lotHeap[a].lot, HASH_SIZE) # 0
          /\ a \notin IndexedLots(hashTable')
          /\ LotsWithId(lotHeap', lotHeap[a].lot) = {}

\* The values of the hash functions do not depend on the state: the
\* formulas below compare them on the steps from the initial state, the only
\* state with no command handled yet.
\*
\* C38 as stated: on every build, for every string and table size, hashString
\* and hashBatch give the same value, which is 5381 folded with
\* h = (h * 33 + byte) mod 2^32 over the bytes of the string and reduced
\* modulo the table size; and a purge finds and removes the lot.
C38_HashOfBytes ==
  [][/\ cmd = "" =>
          \A signedChar \in BOOLEAN, str \in HashStrings, size \in HashSizes :
            /\ hashString(chars(signedChar, str), size)
                 = hashBatch(chars(signedChar, str), size)
            /\ hashString(chars(signedChar, str), size) = djb2(str, size)
     /\ PurgeFindsLot]_vars

\* C38, amended: on every build, for every string and table size, hashString
\* and hashBatch give the same value, which is 5381 folded with
\* h = (h * 33 + c) mod 2^32 over the values c the build reads from the
\* chars of the string and reduced modulo the table size; c is the byte for
\* every byte below 128, so for such strings, batch ids among them, it is
\* the hash of the bytes; and a purge finds and removes the lot.
C38_HashOfChars ==
  [][/\ cmd = "" =>
          \A signedChar \in BOOLEAN, str \in HashStrings, size \in HashSizes :
            /\ hashString(chars(signedChar, str), size)
                 = hashBatch(chars(signedChar, str), size)
            /\ hashString(chars(signedChar, str), size)
                 = djb2(chars(signedChar, str), size)
            /\ IsAscii(str) => hashString(chars(signedChar, str), size) = djb2(str, size)
     /\ PurgeFindsLot]_vars

\* The lot with the id of twenty characters has been purged while the lots
\* "A" and "383", which share a bucket, are in the store.
C38_Witness ==
  /\ cmd = "r"
  /\ out = <<NumLine(0)>>
  /\ LotsWithId(lotHeap, LotLong) = {}
  /\ vaccineCount = 3
  /\ \E b \in DOMAIN hashTable : Len(hashTable[b]) = 2
====
